---- MODULE Spec2Model ----
(***************************************************************************)
(* The Intcode virtual machine of day19_part2 and day25_part1: memory      *)
(* image (HashMap<i64,i64>), instruction pointer, relative base, input     *)
(* queue, output buffer, and the run loop with its ten opcode handlers.    *)
(* The host pushes input values, calls run and (day19) reset.              *)
(*                                                                         *)
(* i64 is scaled down to WordBits-bit two's complement so that overflow    *)
(* is reachable.  The build decides what overflow does (debug: panic,      *)
(* release: wrap); overflow_checks holds that choice.                      *)
(***************************************************************************)
EXTENDS Integers, Sequences, FiniteSets, TLC

VARIABLES
    engine,          \* "day19" or "day25": which of the two sources runs
    overflow_checks, \* TRUE: arithmetic overflow panics; FALSE: it wraps
    image,           \* the host's parsed program (parse's HashMap)
    original,        \* day19: IntcodeComputer.original
    program,         \* IntcodeComputer.program
    pointer,         \* IntcodeComputer.pointer
    halted,          \* IntcodeComputer.halted
    relative_base,   \* day25: the field; day19: the local of run
    input,           \* the host's VecDeque handed to run
    output,          \* run's local output vector
    operation,       \* run's local: the Operation last decoded, with its word
    pc,              \* "host": between calls, "run": in run's loop, "abort": panicked
    returned,        \* the vector the last run call returned
    last_return,     \* "none", "halt" or "suspend": how the last run call ended
    steps,           \* loop iterations of the current run call
    runs,            \* run calls made so far
    supplied,        \* every value the host pushed, in order
    outs,            \* concatenation of the vectors returned so far
    run_input,       \* the queue as it was when run was last called
    since,           \* "new", "reset", or which run call is the latest:
                     \* "first_run", "reset_run" (the first after a reset), "later_run"
    written,         \* target addresses instructions wrote since construction/reset
    heap,            \* day19 host: the HashMap each place holds (place -> map)
    computers,       \* day19 host: the IntcodeComputers alive, their map fields as places
    acted,           \* day19 host: the last operation and the computer it was called on
    decoder,         \* day25 host: the locals of the loop that decodes run's output
    probe,           \* day19 host: the locals of solution and get_y_pulled_at_x
    solver           \* day18: the maze and the locals of solve and bfs

vars == <<engine, overflow_checks, image, original, program, pointer, halted,
          relative_base, input, output, operation, pc, returned,
          last_return, steps, runs, supplied, outs, run_input, since,
          written, heap, computers, acted, decoder, probe, solver>>

\* The variables of the day19 host with several computers.
own == <<heap, computers, acted>>

\* The variables of the hosts outside the engine.
hosts == <<decoder, probe, solver>>

\* A host that has not started.
Idle == [at |-> "idle"]

----------------------------------------------------------------------------
(* Bounds of the model *)

WordBits == 16
MaxSteps == 100
MaxRuns == 3
MaxSupplied == 2
MaxComputers == 2
U32Bits == 24
MaxOutput == 2
MaxY == 1500
MaxX == 2000

----------------------------------------------------------------------------
(* enum OperationType, enum ParameterMode *)

SUM == 1
MUL == 2
CPY == 3
OUT == 4
JIT == 5
JIF == 6
LTH == 7
EQL == 8
ARB == 9
END == 99

PositionMode == 0
ImmediateMode == 1
RelativeMode == 2

OperationTypes == {SUM, MUL, CPY, OUT, JIT, JIF, LTH, EQL, ARB, END}
ParameterModes == {PositionMode, ImmediateMode, RelativeMode}

----------------------------------------------------------------------------
(* i64 arithmetic *)

I64Min == -(2 ^ (WordBits - 1))
I64Max == 2 ^ (WordBits - 1) - 1

Fits(x) == I64Min <= x /\ x <= I64Max

\* The value a wrapping (release build) operation leaves.
Wrap(x) == ((x - I64Min) % (2 ^ WordBits)) + I64Min

\* An arithmetic result that does not panic in this build.
NoPanic(x) == Fits(x) \/ ~overflow_checks

\* Rust's / and % truncate toward zero.
Quot(a, b) == IF a >= 0 THEN a \div b ELSE -((-a) \div b)
\* Rem, had it been rem_euclid: the remainder is never negative.
Rem_euclid(a, b) == a % b

Rem(a, b) == a - b * Quot(a, b)

----------------------------------------------------------------------------
(* HashMap<i64, i64> *)

\* or_insert, had the default been 1.
or_insert_one(prog, k) ==
    IF k \in DOMAIN prog THEN prog
    ELSE [a \in DOMAIN prog \cup {k} |-> IF a = k THEN 1 ELSE prog[a]]

\* program.entry(k).or_insert(0): the map after the call
or_insert(prog, k) ==
    IF k \in DOMAIN prog THEN prog
    ELSE [a \in DOMAIN prog \cup {k} |-> IF a = k THEN 0 ELSE prog[a]]

\* program.insert(k, v)
insert(prog, k, v) ==
    [a \in DOMAIN prog \cup {k} |-> IF a = k THEN v ELSE prog[a]]

\* parse: the comma-separated list becomes a map from index 0..N-1
parse(s) == [a \in 0 .. (Len(s) - 1) |-> s[a + 1]]

----------------------------------------------------------------------------
(* The decoder *)

\* OperationType::from_i64 does not panic
valid_operation(number) == number \in OperationTypes

\* valid_mode, had the mode been checked only where an operand is fetched:
\* decoding accepts any digit.
valid_mode_any(number) == number \in 0 .. 9

\* ParameterMode::from_i64 does not panic
valid_mode(number) == number \in ParameterModes

\* parse_instruction, had it taken the modes from the leading digit down:
\* the first parameter's mode from the ten-thousands digit.
parse_instruction_reversed(prog, ptr) ==
    IF ptr \notin DOMAIN prog
    THEN [ok |-> FALSE, instruction |-> 0, operation |-> 0,
          first_parameter_mode |-> 0, second_parameter_mode |-> 0,
          third_parameter_mode |-> 0]
    ELSE
      LET instr == prog[ptr]
          op == Rem(instr, 100)
          parameters1 == Quot(instr, 100)
          third == Rem(parameters1, 10)
          parameters2 == Quot(parameters1, 10)
          second == Rem(parameters2, 10)
          parameters3 == Quot(parameters2, 10)
          first == Rem(parameters3, 10)
      IN [ok |-> valid_operation(op) /\ valid_mode(first)
                 /\ valid_mode(second) /\ valid_mode(third),
          instruction |-> instr,
          operation |-> op,
          first_parameter_mode |-> first,
          second_parameter_mode |-> second,
          third_parameter_mode |-> third]

\* parse_instruction, had OperationType::from_i64 ended with a default arm
\* `_ => OperationType::END` instead of the panic.
parse_instruction_default_end(prog, ptr) ==
    IF ptr \notin DOMAIN prog
    THEN [ok |-> FALSE, instruction |-> 0, operation |-> 0,
          first_parameter_mode |-> 0, second_parameter_mode |-> 0,
          third_parameter_mode |-> 0]
    ELSE
      LET instr == prog[ptr]
          op == Rem(instr, 100)
          parameters1 == Quot(instr, 100)
          first == Rem(parameters1, 10)
          parameters2 == Quot(parameters1, 10)
          second == Rem(parameters2, 10)
          parameters3 == Quot(parameters2, 10)
          third == Rem(parameters3, 10)
      IN [ok |-> valid_mode(first) /\ valid_mode(second) /\ valid_mode(third),
          instruction |-> instr,
          operation |-> IF valid_operation(op) THEN op ELSE END,
          first_parameter_mode |-> first,
          second_parameter_mode |-> second,
          third_parameter_mode |-> third]

\* parse_instruction: ok = FALSE stands for a panic (the pointer is no key of
\* the map, or one of the from_i64 calls fails).
parse_instruction(prog, ptr) ==
    IF ptr \notin DOMAIN prog
    THEN [ok |-> FALSE, instruction |-> 0, operation |-> 0,
          first_parameter_mode |-> 0, second_parameter_mode |-> 0,
          third_parameter_mode |-> 0]
    ELSE
      LET instr == prog[ptr]
          op == Rem(instr, 100)
          parameters1 == Quot(instr, 100)
          first == Rem(parameters1, 10)
          parameters2 == Quot(parameters1, 10)
          second == Rem(parameters2, 10)
          parameters3 == Quot(parameters2, 10)
          third == Rem(parameters3, 10)
      IN [ok |-> valid_operation(op) /\ valid_mode(first)
                 /\ valid_mode(second) /\ valid_mode(third),
          instruction |-> instr,
          operation |-> op,
          first_parameter_mode |-> first,
          second_parameter_mode |-> second,
          third_parameter_mode |-> third]

----------------------------------------------------------------------------
(* Operand resolution.  A result is [program, val, ok]: the map after the   *)
(* or_insert calls made so far, the value, and ok = FALSE for a panic.      *)

\* get_parameter, had relative mode left the relative base out.
get_parameter_no_base(prog, ptr, rb, parameter_mode, offset) ==
    LET a == ptr + offset
        p1 == or_insert(prog, Wrap(a))
        raw == p1[Wrap(a)]
    IN IF ~NoPanic(a) THEN [program |-> prog, val |-> 0, ok |-> FALSE]
       ELSE IF parameter_mode = ImmediateMode
       THEN [program |-> p1, val |-> raw, ok |-> TRUE]
       ELSE [program |-> or_insert(p1, raw), val |-> or_insert(p1, raw)[raw],
             ok |-> TRUE]

\* get_parameter(parameter_mode, offset)
get_parameter(prog, ptr, rb, parameter_mode, offset) ==
    LET a == ptr + offset
        p1 == or_insert(prog, Wrap(a))
        raw == p1[Wrap(a)]
    IN IF ~NoPanic(a) THEN [program |-> prog, val |-> 0, ok |-> FALSE]
       ELSE IF parameter_mode = PositionMode
       THEN [program |-> or_insert(p1, raw), val |-> or_insert(p1, raw)[raw],
             ok |-> TRUE]
       ELSE IF parameter_mode = ImmediateMode
       THEN [program |-> p1, val |-> raw, ok |-> TRUE]
       ELSE LET index == rb + raw
            IN IF ~NoPanic(index) THEN [program |-> p1, val |-> 0, ok |-> FALSE]
               ELSE [program |-> or_insert(p1, Wrap(index)),
                     val |-> or_insert(p1, Wrap(index))[Wrap(index)],
                     ok |-> TRUE]

get_first_parameter(prog, ptr, rb, first_parameter_mode) ==
    get_parameter(prog, ptr, rb, first_parameter_mode, 1)

get_second_parameter(prog, ptr, rb, second_parameter_mode) ==
    get_parameter(prog, ptr, rb, second_parameter_mode, 2)

\* The match that computes result_index in sum, mul, lth and eql (offset 3)
\* and index in cpy (offset 1): val is the address to write.
\* result_index, had the immediate arm been merged with the position arm.
result_index_immediate_as_position(prog, ptr, rb, parameter_mode, offset) ==
    LET a == ptr + offset
        p1 == or_insert(prog, Wrap(a))
        raw == p1[Wrap(a)]
    IN IF ~NoPanic(a) THEN [program |-> prog, val |-> 0, ok |-> FALSE]
       ELSE IF parameter_mode \in {PositionMode, ImmediateMode}
       THEN [program |-> p1, val |-> raw, ok |-> TRUE]
       ELSE [program |-> p1, val |-> Wrap(rb + raw), ok |-> NoPanic(rb + raw)]

result_index(prog, ptr, rb, parameter_mode, offset) ==
    LET a == ptr + offset
        p1 == or_insert(prog, Wrap(a))
        raw == p1[Wrap(a)]
    IN IF parameter_mode = ImmediateMode
       THEN [program |-> prog, val |-> 0, ok |-> FALSE]
       ELSE IF ~NoPanic(a) THEN [program |-> prog, val |-> 0, ok |-> FALSE]
       ELSE IF parameter_mode = PositionMode
       THEN [program |-> p1, val |-> raw, ok |-> TRUE]
       ELSE [program |-> p1, val |-> Wrap(rb + raw), ok |-> NoPanic(rb + raw)]

----------------------------------------------------------------------------
(* The opcode handlers.  A configuration c is the machine, the queue and    *)
(* the output vector of the run call in progress:                           *)
(*   [engine, program, pointer, halted, relative_base, input, output,       *)
(*    status], status in "running", "halted", "suspended", "panic".         *)

panic(c, prog) == [c EXCEPT !.program = prog, !.status = "panic"]

\* self.pointer += width, after the handler's other effects
advance(c, width) ==
    IF NoPanic(c.pointer + width)
    THEN [c EXCEPT !.pointer = Wrap(c.pointer + width)]
    ELSE [c EXCEPT !.status = "panic"]

sum(c, op) ==
    LET parameter1 == get_first_parameter(c.program, c.pointer, c.relative_base,
                                          op.first_parameter_mode)
        parameter2 == get_second_parameter(parameter1.program, c.pointer,
                                           c.relative_base, op.second_parameter_mode)
        target == result_index(parameter2.program, c.pointer, c.relative_base,
                               op.third_parameter_mode, 3)
        result == parameter1.val + parameter2.val
    IN IF ~parameter1.ok THEN panic(c, parameter1.program)
       ELSE IF ~parameter2.ok THEN panic(c, parameter2.program)
       ELSE IF ~target.ok THEN panic(c, target.program)
       ELSE IF ~NoPanic(result) THEN panic(c, target.program)
       ELSE advance([c EXCEPT !.program =
                        insert(target.program, target.val, Wrap(result))], 4)

\* mul, had it read its second operand at the first operand's offset.
mul_first_twice(c, op) ==
    LET parameter1 == get_first_parameter(c.program, c.pointer, c.relative_base,
                                          op.first_parameter_mode)
        parameter2 == get_first_parameter(parameter1.program, c.pointer,
                                          c.relative_base, op.second_parameter_mode)
        target == result_index(parameter2.program, c.pointer, c.relative_base,
                               op.third_parameter_mode, 3)
        result == parameter1.val * parameter2.val
    IN IF ~parameter1.ok THEN panic(c, parameter1.program)
       ELSE IF ~parameter2.ok THEN panic(c, parameter2.program)
       ELSE IF ~target.ok THEN panic(c, target.program)
       ELSE IF ~NoPanic(result) THEN panic(c, target.program)
       ELSE advance([c EXCEPT !.program =
                        insert(target.program, target.val, Wrap(result))], 4)

mul(c, op) ==
    LET parameter1 == get_first_parameter(c.program, c.pointer, c.relative_base,
                                          op.first_parameter_mode)
        parameter2 == get_second_parameter(parameter1.program, c.pointer,
                                           c.relative_base, op.second_parameter_mode)
        target == result_index(parameter2.program, c.pointer, c.relative_base,
                               op.third_parameter_mode, 3)
        result == parameter1.val * parameter2.val
    IN IF ~parameter1.ok THEN panic(c, parameter1.program)
       ELSE IF ~parameter2.ok THEN panic(c, parameter2.program)
       ELSE IF ~target.ok THEN panic(c, target.program)
       ELSE IF ~NoPanic(result) THEN panic(c, target.program)
       ELSE advance([c EXCEPT !.program =
                        insert(target.program, target.val, Wrap(result))], 4)

\* cpy, had it read the front of the queue without removing it (front()).
cpy_front(c, op) ==
    IF Len(c.input) = 0 THEN [c EXCEPT !.status = "panic"]
    ELSE
      LET value == Head(c.input)
          target == result_index(c.program, c.pointer, c.relative_base,
                                 op.first_parameter_mode, 1)
      IN IF ~target.ok THEN panic(c, target.program)
         ELSE advance([c EXCEPT !.program =
                          insert(target.program, target.val, value)], 2)

\* cpy, had it taken the value from the back of the queue (pop_back).
cpy_pop_back(c, op) ==
    IF Len(c.input) = 0 THEN [c EXCEPT !.status = "panic"]
    ELSE
      LET value == c.input[Len(c.input)]
          popped == [c EXCEPT !.input = SubSeq(c.input, 1, Len(c.input) - 1)]
          target == result_index(c.program, c.pointer, c.relative_base,
                                 op.first_parameter_mode, 1)
      IN IF ~target.ok THEN panic(popped, target.program)
         ELSE advance([popped EXCEPT !.program =
                          insert(target.program, target.val, value)], 2)

\* inputs.pop_front().unwrap() panics on an empty queue; the value is popped
\* before the parameter mode is looked at.
cpy(c, op) ==
    IF Len(c.input) = 0 THEN [c EXCEPT !.status = "panic"]
    ELSE
      LET value == Head(c.input)
          popped == [c EXCEPT !.input = Tail(c.input)]
          target == result_index(c.program, c.pointer, c.relative_base,
                                 op.first_parameter_mode, 1)
      IN IF ~target.ok THEN panic(popped, target.program)
         ELSE advance([popped EXCEPT !.program =
                          insert(target.program, target.val, value)], 2)

out(c, op) ==
    LET operand == get_first_parameter(c.program, c.pointer, c.relative_base,
                                       op.first_parameter_mode)
    IN IF ~operand.ok THEN panic(c, operand.program)
       ELSE advance([c EXCEPT !.program = operand.program,
                              !.output = Append(c.output, operand.val)], 2)

jit(c, op) ==
    LET parameter1 == get_first_parameter(c.program, c.pointer, c.relative_base,
                                          op.first_parameter_mode)
        parameter2 == get_second_parameter(parameter1.program, c.pointer,
                                           c.relative_base, op.second_parameter_mode)
    IN IF ~parameter1.ok THEN panic(c, parameter1.program)
       ELSE IF ~parameter2.ok THEN panic(c, parameter2.program)
       ELSE IF parameter1.val # 0
       THEN [c EXCEPT !.program = parameter2.program, !.pointer = parameter2.val]
       ELSE advance([c EXCEPT !.program = parameter2.program], 3)

\* jif, had it kept jit's condition.
jif_if_true(c, op) ==
    LET parameter1 == get_first_parameter(c.program, c.pointer, c.relative_base,
                                          op.first_parameter_mode)
        parameter2 == get_second_parameter(parameter1.program, c.pointer,
                                           c.relative_base, op.second_parameter_mode)
    IN IF ~parameter1.ok THEN panic(c, parameter1.program)
       ELSE IF ~parameter2.ok THEN panic(c, parameter2.program)
       ELSE IF parameter1.val # 0
       THEN [c EXCEPT !.program = parameter2.program, !.pointer = parameter2.val]
       ELSE advance([c EXCEPT !.program = parameter2.program], 3)

jif(c, op) ==
    LET parameter1 == get_first_parameter(c.program, c.pointer, c.relative_base,
                                          op.first_parameter_mode)
        parameter2 == get_second_parameter(parameter1.program, c.pointer,
                                           c.relative_base, op.second_parameter_mode)
    IN IF ~parameter1.ok THEN panic(c, parameter1.program)
       ELSE IF ~parameter2.ok THEN panic(c, parameter2.program)
       ELSE IF parameter1.val = 0
       THEN [c EXCEPT !.program = parameter2.program, !.pointer = parameter2.val]
       ELSE advance([c EXCEPT !.program = parameter2.program], 3)

\* lth, had the comparison been <=.
lth_or_equal(c, op) ==
    LET parameter1 == get_first_parameter(c.program, c.pointer, c.relative_base,
                                          op.first_parameter_mode)
        parameter2 == get_second_parameter(parameter1.program, c.pointer,
                                           c.relative_base, op.second_parameter_mode)
        target == result_index(parameter2.program, c.pointer, c.relative_base,
                               op.third_parameter_mode, 3)
    IN IF ~parameter1.ok THEN panic(c, parameter1.program)
       ELSE IF ~parameter2.ok THEN panic(c, parameter2.program)
       ELSE IF ~target.ok THEN panic(c, target.program)
       ELSE IF parameter1.val <= parameter2.val
       THEN advance([c EXCEPT !.program = insert(target.program, target.val, 1)], 4)
       ELSE advance([c EXCEPT !.program = insert(target.program, target.val, 0)], 4)

lth(c, op) ==
    LET parameter1 == get_first_parameter(c.program, c.pointer, c.relative_base,
                                          op.first_parameter_mode)
        parameter2 == get_second_parameter(parameter1.program, c.pointer,
                                           c.relative_base, op.second_parameter_mode)
        target == result_index(parameter2.program, c.pointer, c.relative_base,
                               op.third_parameter_mode, 3)
    IN IF ~parameter1.ok THEN panic(c, parameter1.program)
       ELSE IF ~parameter2.ok THEN panic(c, parameter2.program)
       ELSE IF ~target.ok THEN panic(c, target.program)
       ELSE IF parameter1.val < parameter2.val
       THEN advance([c EXCEPT !.program = insert(target.program, target.val, 1)], 4)
       ELSE advance([c EXCEPT !.program = insert(target.program, target.val, 0)], 4)

eql(c, op) ==
    LET parameter1 == get_first_parameter(c.program, c.pointer, c.relative_base,
                                          op.first_parameter_mode)
        parameter2 == get_second_parameter(parameter1.program, c.pointer,
                                           c.relative_base, op.second_parameter_mode)
        target == result_index(parameter2.program, c.pointer, c.relative_base,
                               op.third_parameter_mode, 3)
    IN IF ~parameter1.ok THEN panic(c, parameter1.program)
       ELSE IF ~parameter2.ok THEN panic(c, parameter2.program)
       ELSE IF ~target.ok THEN panic(c, target.program)
       ELSE IF parameter1.val = parameter2.val
       THEN advance([c EXCEPT !.program = insert(target.program, target.val, 1)], 4)
       ELSE advance([c EXCEPT !.program = insert(target.program, target.val, 0)], 4)

\* arb, had it assigned the operand to the relative base (= for +=).
arb_assign(c, op) ==
    LET parameter1 == get_first_parameter(c.program, c.pointer, c.relative_base,
                                          op.first_parameter_mode)
    IN IF ~parameter1.ok THEN panic(c, parameter1.program)
       ELSE advance([c EXCEPT !.program = parameter1.program,
                              !.relative_base = parameter1.val], 2)

\* arb, had day19 handed it relative_base by value: the sum is lost.
arb_by_value(c, op) ==
    LET parameter1 == get_first_parameter(c.program, c.pointer, c.relative_base,
                                          op.first_parameter_mode)
        base == c.relative_base + parameter1.val
    IN IF ~parameter1.ok THEN panic(c, parameter1.program)
       ELSE IF ~NoPanic(base) THEN panic(c, parameter1.program)
       ELSE advance([c EXCEPT !.program = parameter1.program,
                              !.relative_base =
                                  IF c.engine = "day19" THEN @ ELSE Wrap(base)], 2)

arb(c, op) ==
    LET parameter1 == get_first_parameter(c.program, c.pointer, c.relative_base,
                                          op.first_parameter_mode)
        base == c.relative_base + parameter1.val
    IN IF ~parameter1.ok THEN panic(c, parameter1.program)
       ELSE IF ~NoPanic(base) THEN panic(c, parameter1.program)
       ELSE advance([c EXCEPT !.program = parameter1.program,
                              !.relative_base = Wrap(base)], 2)

----------------------------------------------------------------------------
(* run *)

\* run_call, had the output vector outlived the call.
run_call_keep_output(c) ==
    [c EXCEPT !.relative_base = IF c.engine = "day19" THEN 0 ELSE @,
              !.status = "running"]

\* run_call, had day25 too started every call with relative base 0.
run_call_zero_base(c) ==
    [c EXCEPT !.output = <<>>, !.relative_base = 0, !.status = "running"]

\* The start of run: a new output vector; day19 also declares relative_base.
run_call(c) ==
    [c EXCEPT !.output = <<>>,
              !.relative_base = IF c.engine = "day19" THEN 0 ELSE @,
              !.status = "running"]

\* day25's arm for CPY: return at once when the queue is empty.
\* suspends, had day19 shared day25's early return.
suspends_any_engine(c, op) ==
    op.operation = CPY /\ Len(c.input) = 0

\* suspends, had the test been input.len() <= 1.
suspends_on_last(c, op) ==
    c.engine = "day25" /\ op.operation = CPY /\ Len(c.input) <= 1

suspends(c, op) ==
    c.engine = "day25" /\ op.operation = CPY /\ Len(c.input) = 0

\* One iteration of run's loop.
run_iteration(c) ==
    LET op == parse_instruction(c.program, c.pointer)
    IN IF ~op.ok THEN [c EXCEPT !.status = "panic"]
       ELSE IF op.operation = SUM THEN sum(c, op)
       ELSE IF op.operation = MUL THEN mul(c, op)
       ELSE IF op.operation = CPY
       THEN IF suspends(c, op) THEN [c EXCEPT !.status = "suspended"]
            ELSE cpy(c, op)
       ELSE IF op.operation = OUT THEN out(c, op)
       ELSE IF op.operation = JIT THEN jit(c, op)
       ELSE IF op.operation = JIF THEN jif(c, op)
       ELSE IF op.operation = LTH THEN lth(c, op)
       ELSE IF op.operation = EQL THEN eql(c, op)
       ELSE IF op.operation = ARB THEN arb(c, op)
       ELSE [c EXCEPT !.halted = TRUE, !.status = "halted"]

\* run's loop, at most fuel iterations ("fuel": it was still running).
RECURSIVE run_loop(_, _)
run_loop(c, fuel) ==
    IF c.status # "running" THEN c
    ELSE IF fuel = 0 THEN [c EXCEPT !.status = "fuel"]
    ELSE run_loop(run_iteration(c), fuel - 1)

\* A whole call of run on configuration c.
run(c) == run_loop(run_call(c), MaxSteps)

\* IntcodeComputer::new (day19) and the struct literal of solution (day25),
\* with the queue the host hands to run.
new(eng, img, queue) ==
    [engine |-> eng, program |-> img, pointer |-> 0, halted |-> FALSE,
     relative_base |-> 0, input |-> queue, output |-> <<>>,
     status |-> "running"]

\* reset, had it left the pointer where the last run stopped.
reset_keep_pointer(c) ==
    [c EXCEPT !.program = original, !.halted = FALSE]

\* IntcodeComputer::reset (day19)
reset(c) ==
    [c EXCEPT !.program = original, !.pointer = 0, !.halted = FALSE]

----------------------------------------------------------------------------
(* Program images and host inputs the model runs *)

\* The self-reproducing program
Quine == <<109, 1, 204, -1, 1001, 100, 1, 100, 1008, 100, 16, 101, 1006, 101, 0, 99>>

AddExample == <<1, 0, 0, 0, 99>>

\* in, out, halt
InputFirst == <<3, 0, 4, 0, 99>>

\* rb := 20; in -> [rb]; out [rb]; in -> [rb+1]; [rb+2] := [rb] + [rb+1];
\* out [rb+2]; halt
Dialogue == <<109, 20, 203, 0, 204, 0, 203, 1, 22201, 0, 1, 2, 204, 2, 99>>

\* in -> [20]; loop: out [20]; [20] := [20] - 1; [21] := 0 < [20];
\* if [21] # 0 jump to loop; halt
CountDown == <<3, 20, 4, 20, 1001, 20, -1, 20, 107, 0, 20, 21, 1005, 21, 2, 99>>

\* a write to, and a read of, a negative address
NegativeAddress == <<21101, 2, 3, -7, 204, -7, 99>>

\* the words of one instruction with every combination of parameter modes
\* for its first n parameters
ModeWords(ops, n) ==
    { op + 100 * m1 + 1000 * m2 + 10000 * m3 :
        op \in ops, m1 \in ParameterModes,
        m2 \in IF n >= 2 THEN ParameterModes ELSE {PositionMode},
        m3 \in IF n >= 3 THEN ParameterModes ELSE {PositionMode} }

\* rb := 8; one three-operand instruction w a b t; halt; data
Binary(w, abt) ==
    <<109, 8, w, abt[1], abt[2], abt[3], 99, 5, 5, -3, 5, 9>>

BinaryOperands == {<<9, 10, 7>>, <<1, 1, 30>>}

\* rb := 6; one one-operand instruction w a; out [rb+1]; halt; data
Unary(w, a) ==
    <<109, 6, w, a, 204, 1, 99, 5, -2, 8, 3>>

UnaryOperands == {8, 1}

\* rb := 3; one jump w a b; halt; out 1; halt; data
Jump(w, ab) ==
    <<109, 3, w, ab[1], ab[2], 99, 104, 1, 99, 8, 6, 8, 0, 6, 5>>

JumpOperands == {<<0, 6>>, <<0, 11>>, <<10, 6>>, <<10, 11>>}

\* programs that end in a panic, or overflow i64
Faulty ==
    { <<0>>, <<-1>>, <<-99>>, <<-199, 0, 0, 0>>, <<-1101, 0, 0, 0>>, <<3099>>, <<1302, 0, 0, 0>>, <<31001, 0, 0, 0>>,
      <<1105, 1, 40>>, <<103, 0, 99>>,
      <<1102, 256, 256, 7, 4, 7, 99>>,
      <<1101, I64Max, 1, 7, 4, 7, 99>>,
      <<109, I64Max, 109, 1, 204, 0, 99>>,
      <<1101, I64Min, -1, 7, 4, 7, 99>> }

Programs ==
    {Quine, AddExample, InputFirst, Dialogue, CountDown, NegativeAddress}
    \cup { Binary(w, abt) : w \in ModeWords({SUM, MUL, LTH, EQL}, 3),
                            abt \in BinaryOperands }
    \cup { Unary(w, a) : w \in ModeWords({CPY, OUT, ARB}, 1),
                         a \in UnaryOperands }
    \cup { Jump(w, ab) : w \in ModeWords({JIT, JIF}, 2), ab \in JumpOperands }
    \cup Faulty

Images == { parse(s) : s \in Programs }

InputValues == {-4, 3}

----------------------------------------------------------------------------
(* The state machine *)

NoOperation ==
    [ok |-> FALSE, instruction |-> 0, operation |-> 0,
     first_parameter_mode |-> 0, second_parameter_mode |-> 0,
     third_parameter_mode |-> 0]

\* The configuration the variables hold.
Cfg ==
    [engine |-> engine, program |-> program, pointer |-> pointer,
     halted |-> halted, relative_base |-> relative_base, input |-> input,
     output |-> output, status |-> "running"]

\* The word at the pointer, decoded.
Decoded == parse_instruction(program, pointer)

Init ==
    /\ engine \in {"day19", "day25"}
    /\ overflow_checks \in BOOLEAN
    /\ image \in Images
    /\ original = IF engine = "day19" THEN image ELSE parse(<<>>)
    /\ program = image
    /\ pointer = 0
    /\ halted = FALSE
    /\ relative_base = 0
    /\ input = <<>>
    /\ output = <<>>
    /\ operation = NoOperation
    /\ pc = "host"
    /\ returned = <<>>
    /\ last_return = "none"
    /\ steps = 0
    /\ runs = 0
    /\ supplied = <<>>
    /\ outs = <<>>
    /\ run_input = <<>>
    /\ since = "new"
    /\ written = {}
    /\ heap = <<>>
    /\ computers = <<>>
    /\ acted = [op |-> "none", on |-> 0, output |-> <<>>]
    /\ decoder = Idle
    /\ probe = Idle
    /\ solver = Idle

\* The host appends a value to the queue: input.push_back(v).
HostPush ==
    /\ pc = "host"
    /\ Len(supplied) < MaxSupplied
    /\ \E v \in InputValues :
         /\ input' = Append(input, v)
         /\ supplied' = Append(supplied, v)
    /\ UNCHANGED own
    /\ UNCHANGED hosts
    /\ UNCHANGED <<engine, overflow_checks, image, original, program, pointer,
                   halted, relative_base, output, operation, pc, returned,
                   last_return, steps, runs, outs, run_input, since, written>>

\* The host calls computer.run(&mut input).
RunCall ==
    /\ pc = "host"
    /\ runs < MaxRuns
    /\ pc' = "run"
    /\ output' = run_call(Cfg).output
    /\ relative_base' = run_call(Cfg).relative_base
    /\ steps' = 0
    /\ runs' = runs + 1
    /\ run_input' = input
    /\ since' = IF since = "new" THEN "first_run"
                ELSE IF since = "reset" THEN "reset_run" ELSE "later_run"
    /\ UNCHANGED own
    /\ UNCHANGED hosts
    /\ UNCHANGED <<engine, overflow_checks, image, original, program, pointer,
                   halted, input, operation, returned, last_return, supplied,
                   outs, written>>

\* The host calls computer.reset() (day19).
Reset ==
    /\ pc = "host"
    /\ engine = "day19"
    /\ program' = reset(Cfg).program
    /\ pointer' = reset(Cfg).pointer
    /\ halted' = reset(Cfg).halted
    /\ since' = "reset"
    /\ written' = {}
    /\ UNCHANGED own
    /\ UNCHANGED hosts
    /\ UNCHANGED <<engine, overflow_checks, image, original, relative_base,
                   input, output, operation, pc, returned, last_return, steps,
                   runs, supplied, outs, run_input>>

\* The effect of one handler on the variables: c is the configuration it
\* leaves, wr the addresses it wrote.
Handled(op, c, wr) ==
    /\ operation' = op
    /\ program' = c.program
    /\ pointer' = c.pointer
    /\ halted' = c.halted
    /\ relative_base' = c.relative_base
    /\ input' = c.input
    /\ output' = c.output
    /\ pc' = IF c.status = "panic" THEN "abort" ELSE "run"
    /\ written' = IF c.status = "panic" THEN written ELSE written \cup wr
    /\ steps' = steps + 1
    /\ UNCHANGED own
    /\ UNCHANGED hosts
    /\ UNCHANGED <<engine, overflow_checks, image, original, returned,
                   last_return, runs, supplied, outs, run_input, since>>

\* The address the instruction at the pointer writes, its target parameter
\* at the given offset.
Target(mode, offset) ==
    {result_index(program, pointer, relative_base, mode, offset).val}

InLoop == pc = "run" /\ steps < MaxSteps /\ Decoded.ok

\* parse_instruction panics.
ParsePanic ==
    /\ pc = "run"
    /\ steps < MaxSteps
    /\ ~Decoded.ok
    /\ operation' = Decoded
    /\ pc' = "abort"
    /\ steps' = steps + 1
    /\ UNCHANGED own
    /\ UNCHANGED hosts
    /\ UNCHANGED <<engine, overflow_checks, image, original, program, pointer,
                   halted, relative_base, input, output, returned, last_return,
                   runs, supplied, outs, run_input, since, written>>

Sum ==
    /\ InLoop
    /\ Decoded.operation = SUM
    /\ Handled(Decoded, sum(Cfg, Decoded), Target(Decoded.third_parameter_mode, 3))

Mul ==
    /\ InLoop
    /\ Decoded.operation = MUL
    /\ Handled(Decoded, mul(Cfg, Decoded), Target(Decoded.third_parameter_mode, 3))

Cpy ==
    /\ InLoop
    /\ Decoded.operation = CPY
    /\ ~suspends(Cfg, Decoded)
    /\ Handled(Decoded, cpy(Cfg, Decoded), Target(Decoded.first_parameter_mode, 1))

\* Suspend, had it stepped over the input instruction.
SuspendAdvancing ==
    /\ InLoop
    /\ suspends(Cfg, Decoded)
    /\ operation' = Decoded
    /\ returned' = output
    /\ outs' = outs \o output
    /\ last_return' = "suspend"
    /\ pc' = "host"
    /\ pointer' = pointer + 2
    /\ steps' = steps + 1
    /\ UNCHANGED own
    /\ UNCHANGED hosts
    /\ UNCHANGED <<engine, overflow_checks, image, original, program,
                   halted, relative_base, input, output, runs, supplied,
                   run_input, since, written>>

\* Suspend, had the CPY arm left the loop with break instead of returning:
\* the code after the loop sets halted.
SuspendHalting ==
    /\ InLoop
    /\ suspends(Cfg, Decoded)
    /\ operation' = Decoded
    /\ returned' = output
    /\ outs' = outs \o output
    /\ last_return' = "suspend"
    /\ pc' = "host"
    /\ halted' = TRUE
    /\ steps' = steps + 1
    /\ UNCHANGED own
    /\ UNCHANGED hosts
    /\ UNCHANGED <<engine, overflow_checks, image, original, program, pointer,
                   relative_base, input, output, runs, supplied,
                   run_input, since, written>>

\* day25: run returns the output so far when CPY finds the queue empty.
Suspend ==
    /\ InLoop
    /\ suspends(Cfg, Decoded)
    /\ operation' = Decoded
    /\ returned' = output
    /\ outs' = outs \o output
    /\ last_return' = "suspend"
    /\ pc' = "host"
    /\ steps' = steps + 1
    /\ UNCHANGED own
    /\ UNCHANGED hosts
    /\ UNCHANGED <<engine, overflow_checks, image, original, program, pointer,
                   halted, relative_base, input, output, runs, supplied,
                   run_input, since, written>>

Out ==
    /\ InLoop
    /\ Decoded.operation = OUT
    /\ Handled(Decoded, out(Cfg, Decoded), {})

Jit ==
    /\ InLoop
    /\ Decoded.operation = JIT
    /\ Handled(Decoded, jit(Cfg, Decoded), {})

Jif ==
    /\ InLoop
    /\ Decoded.operation = JIF
    /\ Handled(Decoded, jif(Cfg, Decoded), {})

Lth ==
    /\ InLoop
    /\ Decoded.operation = LTH
    /\ Handled(Decoded, lth(Cfg, Decoded), Target(Decoded.third_parameter_mode, 3))

Eql ==
    /\ InLoop
    /\ Decoded.operation = EQL
    /\ Handled(Decoded, eql(Cfg, Decoded), Target(Decoded.third_parameter_mode, 3))

Arb ==
    /\ InLoop
    /\ Decoded.operation = ARB
    /\ Handled(Decoded, arb(Cfg, Decoded), {})

\* End, had the END arm stepped over the halt word before breaking.
EndAdvancing ==
    /\ InLoop
    /\ Decoded.operation = END
    /\ operation' = Decoded
    /\ halted' = TRUE
    /\ returned' = output
    /\ outs' = outs \o output
    /\ last_return' = "halt"
    /\ pc' = "host"
    /\ pointer' = pointer + 1
    /\ steps' = steps + 1
    /\ UNCHANGED own
    /\ UNCHANGED hosts
    /\ UNCHANGED <<engine, overflow_checks, image, original, program,
                   relative_base, input, output, runs, supplied, run_input,
                   since, written>>

\* END: break, self.halted = true, return output.
End ==
    /\ InLoop
    /\ Decoded.operation = END
    /\ operation' = Decoded
    /\ halted' = TRUE
    /\ returned' = output
    /\ outs' = outs \o output
    /\ last_return' = "halt"
    /\ pc' = "host"
    /\ steps' = steps + 1
    /\ UNCHANGED own
    /\ UNCHANGED hosts
    /\ UNCHANGED <<engine, overflow_checks, image, original, program, pointer,
                   relative_base, input, output, runs, supplied, run_input,
                   since, written>>

Next ==
    \/ HostPush
    \/ RunCall
    \/ Reset
    \/ ParsePanic
    \/ Sum
    \/ Mul
    \/ Cpy
    \/ Suspend
    \/ Out
    \/ Jit
    \/ Jif
    \/ Lth
    \/ Eql
    \/ Arb
    \/ End

Spec == Init /\ [][Next]_vars

----------------------------------------------------------------------------
(* The day19 host with several computers built from one parsed program.    *)
(* A place is a variable or a field that holds a HashMap; heap gives the   *)
(* map each live place holds.  clone() copies a map into another place.    *)

\* The variables of the single-machine state machine.
machine == <<engine, overflow_checks, image, original, program, pointer,
             halted, relative_base, input, output, operation, pc, returned,
             last_return, steps, runs, supplied, outs, run_input, since,
             written>>

\* solution's local `program`, the map parse returned.
HostPlace == 0

\* The first place not in use.
Fresh(h) ==
    CHOOSE n \in 0 .. Cardinality(DOMAIN h) :
        n \notin DOMAIN h /\ \A m \in 0 .. n - 1 : m \in DOMAIN h

\* A map moved or cloned into a place.
store(h, place, value) ==
    [q \in DOMAIN h \cup {place} |-> IF q = place THEN value ELSE h[q]]

\* A place going out of scope.
drop(h, place) == [q \in DOMAIN h \ {place} |-> h[q]]

\* IntcodeComputer::new, had both fields been the one map it was given.
new_computer_sharing(h, arg) ==
    [heap |-> h,
     computer |-> [original |-> arg, program |-> arg,
                   pointer |-> 0, halted |-> FALSE]]

\* IntcodeComputer::new on the map in place arg: original and program each
\* get a clone of it, and the argument is dropped when new returns.
new_computer(h, arg) ==
    LET o == Fresh(h)
        h1 == store(h, o, h[arg])
        p == Fresh(h1)
        h2 == store(h1, p, h[arg])
    IN [heap |-> drop(h2, arg),
        computer |-> [original |-> o, program |-> p,
                      pointer |-> 0, halted |-> FALSE]]

\* IntcodeComputer::reset on computer m: self.program = self.original.clone()
reset_computer(h, m) ==
    [heap |-> store(h, m.program, h[m.original]),
     computer |-> [m EXCEPT !.pointer = 0, !.halted = FALSE]]

\* IntcodeComputer::run on computer m with the queue the host built.
run_computer(h, m, queue) ==
    LET c == run([new("day19", h[m.program], queue)
                    EXCEPT !.pointer = m.pointer, !.halted = m.halted])
    IN [heap |-> store(h, m.program, c.program),
        computer |-> [m EXCEPT !.pointer = c.pointer, !.halted = c.halted],
        output |-> c.output,
        status |-> c.status]

\* The programs the several-computer host is run on.
OwnPrograms ==
    {Quine, AddExample, InputFirst, Dialogue, CountDown, NegativeAddress,
     <<0>>, <<103, 0, 99>>, <<1102, 256, 256, 7, 4, 7, 99>>}

\* The queues the host builds: VecDeque::from([..]).
HostQueues == UNION { [1 .. n -> InputValues] : n \in 0 .. MaxSupplied }

InitOwn ==
    /\ engine = "day19"
    /\ overflow_checks \in BOOLEAN
    /\ image \in { parse(s) : s \in OwnPrograms }
    /\ original = image
    /\ program = image
    /\ pointer = 0
    /\ halted = FALSE
    /\ relative_base = 0
    /\ input = <<>>
    /\ output = <<>>
    /\ operation = NoOperation
    /\ pc = "host"
    /\ returned = <<>>
    /\ last_return = "none"
    /\ steps = 0
    /\ runs = 0
    /\ supplied = <<>>
    /\ outs = <<>>
    /\ run_input = <<>>
    /\ since = "new"
    /\ written = {}
    /\ heap = store(<<>>, HostPlace, image)
    /\ computers = <<>>
    /\ acted = [op |-> "none", on |-> 0, output |-> <<>>]
    /\ decoder = Idle
    /\ probe = Idle
    /\ solver = Idle

\* IntcodeComputer::new(program.clone())
NewComputer ==
    /\ acted.op # "panic"
    /\ Len(computers) < MaxComputers
    /\ LET t == Fresh(heap)
           made == new_computer(store(heap, t, heap[HostPlace]), t)
       IN /\ heap' = made.heap
          /\ computers' = Append(computers, made.computer)
          /\ acted' = [op |-> "new", on |-> Len(computers) + 1, output |-> <<>>]
    /\ UNCHANGED machine
    /\ UNCHANGED hosts

\* computer.run(&mut input), the whole call; a panic ends the process.
RunComputer ==
    /\ acted.op # "panic"
    /\ \E i \in 1 .. Len(computers), queue \in HostQueues :
         \E r \in {run_computer(heap, computers[i], queue)} :
            /\ r.status \in {"halted", "panic"}
            /\ heap' = r.heap
            /\ computers' = [computers EXCEPT ![i] = r.computer]
            /\ acted' = IF r.status = "panic"
                        THEN [op |-> "panic", on |-> i, output |-> <<>>]
                        ELSE [op |-> "run", on |-> i, output |-> r.output]
    /\ UNCHANGED machine
    /\ UNCHANGED hosts

\* computer.reset()
ResetComputer ==
    /\ acted.op # "panic"
    /\ \E i \in 1 .. Len(computers) :
         LET r == reset_computer(heap, computers[i])
         IN /\ heap' = r.heap
            /\ computers' = [computers EXCEPT ![i] = r.computer]
            /\ acted' = [op |-> "reset", on |-> i, output |-> <<>>]
    /\ UNCHANGED machine
    /\ UNCHANGED hosts

\* get_y_pulled_at_x returns: its computer, the one built last, is dropped.
DropComputer ==
    /\ acted.op # "panic"
    /\ Len(computers) > 1
    /\ LET m == computers[Len(computers)]
       IN heap' = drop(drop(heap, m.original), m.program)
    /\ computers' = SubSeq(computers, 1, Len(computers) - 1)
    /\ acted' = [op |-> "drop", on |-> Len(computers), output |-> <<>>]
    /\ UNCHANGED machine
    /\ UNCHANGED hosts

NextOwn ==
    \/ NewComputer
    \/ RunComputer
    \/ ResetComputer
    \/ DropComputer

SpecOwn == InitOwn /\ [][NextOwn]_vars

----------------------------------------------------------------------------
(* The hosts outside the engine.  While one of them runs, the engine       *)
(* variables hold a machine that is never run.                             *)

MachineIdle ==
    /\ engine = "day25"
    /\ overflow_checks = TRUE
    /\ image = parse(<<END>>)
    /\ original = parse(<<>>)
    /\ program = image
    /\ pointer = 0
    /\ halted = FALSE
    /\ relative_base = 0
    /\ input = <<>>
    /\ output = <<>>
    /\ operation = NoOperation
    /\ pc = "host"
    /\ returned = <<>>
    /\ last_return = "none"
    /\ steps = 0
    /\ runs = 0
    /\ supplied = <<>>
    /\ outs = <<>>
    /\ run_input = <<>>
    /\ since = "new"
    /\ written = {}
    /\ heap = <<>>
    /\ computers = <<>>
    /\ acted = [op |-> "none", on |-> 0, output |-> <<>>]

----------------------------------------------------------------------------
(* day25 solution: decoding the output of run into the message.  u32 is    *)
(* scaled down to U32Bits bits, still wider than a code point; the i64     *)
(* values are integers on both sides of that range.                        *)

\* The greatest code point, and the surrogate range char::from_u32 rejects.
CharMax == 1114111
SurrogateMin == 55296
SurrogateMax == 57343

\* c as u32: the low bits of the two's complement value
as_u32(c) == c % (2 ^ U32Bits)

\* char::from_u32
from_u32(u) ==
    [some |-> u <= CharMax /\ u \notin SurrogateMin .. SurrogateMax,
     char |-> u]

\* The values run may hand to the decoder.
OutputValues ==
    {10, 65, -1, SurrogateMin, CharMax, CharMax + 1,
     2 ^ U32Bits - 1, 2 ^ U32Bits + 65, 65 - 2 ^ U32Bits}

InitDecode ==
    /\ MachineIdle
    /\ probe = Idle
    /\ solver = Idle
    /\ \E n \in 0 .. MaxOutput :
         \E values \in [1 .. n -> OutputValues] :
            decoder = [at |-> "decode", output |-> values,
                       message |-> <<>>, errors |-> <<>>]

\* Some(c) => message.push(c)
MessagePush ==
    /\ decoder.at = "decode"
    /\ decoder.output # <<>>
    /\ from_u32(as_u32(Head(decoder.output))).some
    /\ decoder' = [decoder EXCEPT
                      !.output = Tail(@),
                      !.message = Append(@, from_u32(as_u32(Head(decoder.output))).char)]
    /\ UNCHANGED <<machine, own, probe, solver>>

\* None => print!(" error {}", c)
PrintError ==
    /\ decoder.at = "decode"
    /\ decoder.output # <<>>
    /\ ~from_u32(as_u32(Head(decoder.output))).some
    /\ decoder' = [decoder EXCEPT
                      !.output = Tail(@),
                      !.errors = Append(@, Head(decoder.output))]
    /\ UNCHANGED <<machine, own, probe, solver>>

NextDecode ==
    \/ MessagePush
    \/ PrintError

SpecDecode == InitDecode /\ [][NextDecode]_vars

----------------------------------------------------------------------------
(* day19 solution and get_y_pulled_at_x.  The program the host probes is   *)
(* its input file; the model takes what the program answers from a region, *)
(* a beam from the origin between two slopes: a*x <= d*y <= b*x.           *)

PULLED == 1

FirstCandidate == 200
Growth == 300
Offset == 99
BackOff == 10
Scale == 10000

Regions ==
    { [a |-> 10, b |-> 15, d |-> 10],
      [a |-> 8, b |-> 12, d |-> 10],
      [a |-> 5, b |-> 7, d |-> 10] }

\* output[0] of computer.run on the queue [x, y]
pulled(region, x, y) ==
    IF x >= 0 /\ y >= 0 /\ region.a * x <= region.d * y
                         /\ region.d * y <= region.b * x
    THEN PULLED ELSE 0

\* The call get_y_pulled_at_x(previous_y, x1, ..), returning to `back`.
get_y_pulled_at_x(p, previous_y, x1, back) ==
    [p EXCEPT !.at = "scan", !.y = previous_y, !.scan_x = x1, !.back = back]

InitProbe ==
    /\ MachineIdle
    /\ decoder = Idle
    /\ solver = Idle
    /\ \E region \in Regions :
         probe = [at |-> "grow", region |-> region,
                  previous_x |-> 0, previous_y |-> 0, x1 |-> FirstCandidate,
                  start_x |-> 0, end_x |-> 0, mid_x |-> 0,
                  y |-> 0, scan_x |-> 0, back |-> "none", result |-> 0]

\* solution, growth loop: let y1 = get_y_pulled_at_x(previous_y, x1, ..)
GrowCall ==
    /\ probe.at = "grow"
    /\ probe' = get_y_pulled_at_x(probe, probe.previous_y, probe.x1, "grow_test")
    /\ UNCHANGED <<machine, own, decoder, solver>>

\* get_y_pulled_at_x: one iteration of `while output[0] != PULLED`
ScanStep ==
    /\ probe.at = "scan"
    /\ pulled(probe.region, probe.scan_x, probe.y) # PULLED
    /\ probe.y < MaxY
    /\ probe' = [probe EXCEPT !.y = @ + 1]
    /\ UNCHANGED <<machine, own, decoder, solver>>

\* get_y_pulled_at_x: the loop ends and y is returned
ScanReturn ==
    /\ probe.at = "scan"
    /\ pulled(probe.region, probe.scan_x, probe.y) = PULLED
    /\ probe' = [probe EXCEPT !.at = probe.back]
    /\ UNCHANGED <<machine, own, decoder, solver>>

\* solution, growth loop after the call: the containment test, then break
\* (and the binary search init) or the next candidate.
GrowTest ==
    /\ probe.at = "grow_test"
    /\ LET y1 == probe.y
           x2 == probe.x1 - Offset
           y2 == y1 + Offset
       IN IF pulled(probe.region, x2, y2) = PULLED
          THEN probe' = [probe EXCEPT !.at = "search", !.previous_y = y1,
                                      !.start_x = probe.previous_x,
                                      !.end_x = probe.x1]
          ELSE /\ probe.x1 < MaxX
               /\ probe' = [probe EXCEPT !.at = "grow", !.previous_y = y1,
                                         !.previous_x = probe.x1,
                                         !.x1 = @ + Growth]
    /\ UNCHANGED <<machine, own, decoder, solver>>

\* solution, binary search: mid_x and the call get_y_pulled_at_x(previous_x, mid_x, ..)
SearchCall ==
    /\ probe.at = "search"
    /\ probe.start_x < probe.end_x
    /\ LET mid_x == Quot(probe.start_x + probe.end_x, 2)
       IN probe' = get_y_pulled_at_x([probe EXCEPT !.mid_x = mid_x],
                                     probe.previous_x, mid_x, "search_test")
    /\ UNCHANGED <<machine, own, decoder, solver>>

\* solution, binary search after the call: the containment test moves
\* end_x or start_x.
SearchTest ==
    /\ probe.at = "search_test"
    /\ LET mid_y == probe.y
           x2 == probe.mid_x - Offset
           y2 == mid_y + Offset
       IN IF pulled(probe.region, x2, y2) = PULLED
          THEN probe' = [probe EXCEPT !.at = "search", !.end_x = probe.mid_x]
          ELSE probe' = [probe EXCEPT !.at = "search", !.start_x = probe.mid_x + 1]
    /\ UNCHANGED <<machine, own, decoder, solver>>

\* solution, after the search: get_y_pulled_at_x(start_x - 10, start_x, ..)
FinalCall ==
    /\ probe.at = "search"
    /\ ~(probe.start_x < probe.end_x)
    /\ probe' = get_y_pulled_at_x(probe, probe.start_x - BackOff, probe.start_x,
                                  "final")
    /\ UNCHANGED <<machine, own, decoder, solver>>

\* solution returns (start_x - 99) * 10_000 + final_y
Return ==
    /\ probe.at = "final"
    /\ probe' = [probe EXCEPT !.at = "done",
                              !.result = (probe.start_x - Offset) * Scale + probe.y]
    /\ UNCHANGED <<machine, own, decoder, solver>>

NextProbe ==
    \/ GrowCall
    \/ ScanStep
    \/ ScanReturn
    \/ GrowTest
    \/ SearchCall
    \/ SearchTest
    \/ FinalCall
    \/ Return

SpecProbe == InitProbe /\ [][NextProbe]_vars

----------------------------------------------------------------------------
(* day18 solve.  A maze is a sequence of rows of one-character strings;    *)
(* rows, columns and node ids count from 0 as in the source.  The bit      *)
(* masks of the source (dependencies, keys) are the sets of the node ids   *)
(* whose bits are set: | is union, (d & k) != d is "d is no subset of k".  *)
(* The letters are those of Lower ('a'..='z' in the source).               *)

ENTRANCE == "@"
WALL == "#"
SPACE == "."
INFINITY == 10000000
NOT_HERE == <<0, 0>>

Lower == <<"a", "b", "c", "d", "e", "f">>
Upper == <<"A", "B", "C", "D", "E", "F">>

\* 'a'..='z' and 'A'..='Z'
is_lowercase(ch) == \E i \in 1 .. Len(Lower) : Lower[i] = ch
is_uppercase(ch) == \E i \in 1 .. Len(Upper) : Upper[i] = ch

to_ascii_lowercase(ch) == Lower[CHOOSE i \in 1 .. Len(Upper) : Upper[i] = ch]

\* maze[row][col]
cell(maze, row, col) == maze[row + 1][col + 1]

\* The cells of the maze in the order of the two nested loops.
RECURSIVE cells_from(_, _)
cells_from(maze, row) ==
    IF row = Len(maze) THEN <<>>
    ELSE [col \in 1 .. Len(maze[row + 1]) |-> <<row, col - 1>>]
             \o cells_from(maze, row + 1)

\* char_keys after the first scan and sort()
sorted_keys(maze) ==
    LET found == SelectSeq(cells_from(maze, 0),
                           LAMBDA p : is_lowercase(cell(maze, p[1], p[2])))
        RECURSIVE sorted_from(_)
        sorted_from(i) ==
            IF i > Len(Lower) THEN <<>>
            ELSE [n \in 1 .. Len(SelectSeq(found,
                       LAMBDA p : cell(maze, p[1], p[2]) = Lower[i])) |-> Lower[i]]
                     \o sorted_from(i + 1)
    IN sorted_from(1)

\* node_id: the index of each character of char_keys (the last, if repeated)
node_ids(char_keys) ==
    [ch \in { char_keys[i] : i \in 1 .. Len(char_keys) } |->
        (CHOOSE i \in 1 .. Len(char_keys) :
            /\ char_keys[i] = ch
            /\ \A j \in i + 1 .. Len(char_keys) : char_keys[j] # ch) - 1]

\* nodes_positions: the last cell, in scan order, that holds the node's
\* character, (0, 0) if there is none
positions(maze, char_keys, node_id) ==
    [n \in 0 .. Len(char_keys) - 1 |->
        LET held == SelectSeq(cells_from(maze, 0),
                       LAMBDA p : /\ cell(maze, p[1], p[2]) \in DOMAIN node_id
                                  /\ node_id[cell(maze, p[1], p[2])] = n)
        IN IF held = <<>> THEN NOT_HERE ELSE held[Len(held)]]

\* get_neighbors: the four neighbours that are no wall, in the order of steps
get_neighbors(row, col, maze) ==
    SelectSeq(<<<<row + 1, col>>, <<row - 1, col>>, <<row, col + 1>>, <<row, col - 1>>>>,
              LAMBDA p : cell(maze, p[1], p[2]) # WALL)

\* bfs, the body of `for (new_row, new_col) in get_neighbors(..)` for the
\* neighbours left; st holds queue, visited, the two matrices and panicked.
RECURSIVE bfs_neighbors(_, _, _, _, _, _, _)
bfs_neighbors(st, node, distance, path_dependencies, neighbors, maze, node_id) ==
    IF neighbors = <<>> \/ st.panicked THEN st
    ELSE
      LET p == Head(neighbors)
          ch == cell(maze, p[1], p[2])
          next(st2) == bfs_neighbors(st2, node, distance, path_dependencies,
                                     Tail(neighbors), maze, node_id)
      IN IF p \in st.visited THEN next(st)
         ELSE IF is_uppercase(ch)
         THEN IF to_ascii_lowercase(ch) \notin DOMAIN node_id
              THEN [st EXCEPT !.panicked = TRUE]
              ELSE next([st EXCEPT
                     !.visited = @ \cup {p},
                     !.queue = Append(@, <<distance + 1,
                                   path_dependencies
                                     \cup {node_id[to_ascii_lowercase(ch)]},
                                   p[1], p[2]>>)])
         ELSE IF is_lowercase(ch)
         THEN next([st EXCEPT
                     !.adjacency_matrix[node][node_id[ch]] = distance + 1,
                     !.dependencies[node][node_id[ch]] = path_dependencies,
                     !.visited = @ \cup {p}])
         ELSE IF ch \in {ENTRANCE, SPACE}
         THEN next([st EXCEPT
                     !.visited = @ \cup {p},
                     !.queue = Append(@, <<distance + 1, path_dependencies,
                                           p[1], p[2]>>)])
         ELSE [st EXCEPT !.panicked = TRUE]

\* Floyd-Warshall, `for j in 0..number_of_keys` for one k and i, from j on
RECURSIVE floyd_warshall(_, _, _, _, _)
floyd_warshall(m, number_of_keys, k, i, j) ==
    IF j >= number_of_keys THEN m
    ELSE IF m.dp[i][k] + m.dp[k][j] < m.dp[i][j]
    THEN floyd_warshall([m EXCEPT !.dp[i][j] = m.dp[i][k] + m.dp[k][j],
                                  !.dep[i][j] = m.dep[i][k] \cup m.dep[k][j]],
                        number_of_keys, k, i, j + 1)
    ELSE floyd_warshall(m, number_of_keys, k, i, j + 1)

\* queue.push(item, priority): a new item, or a new priority for an old one
push(queue, item, priority) ==
    [q \in DOMAIN queue \cup {item} |-> IF q = item THEN priority ELSE queue[q]]

\* The search loop body after pop_min, `for new_node in 0..number_of_keys`
\* from new_node on; st holds queue and visited.
RECURSIVE relax(_, _, _, _, _, _, _, _)
relax(st, keys, node, distance, new_node, number_of_keys, dp, dep) ==
    IF new_node >= number_of_keys THEN st
    ELSE
      LET new_distance == dp[node][new_node]
          new_keys == keys \cup {new_node}
          state_key == <<new_node, new_keys>>
          current_distance == distance + new_distance
          next(st2) == relax(st2, keys, node, distance, new_node + 1,
                             number_of_keys, dp, dep)
          pushed == [st EXCEPT
                       !.visited = push(@, state_key, current_distance),
                       !.queue = push(@, <<new_keys, new_node>>, current_distance)]
      IN IF new_node = node \/ new_distance >= INFINITY THEN next(st)
         ELSE IF ~(dep[node][new_node] \subseteq keys) THEN next(st)
         ELSE IF new_node \in keys THEN next(st)
         ELSE IF state_key \notin DOMAIN st.visited THEN next(pushed)
         ELSE IF current_distance < st.visited[state_key] THEN next(pushed)
         ELSE next(st)

\* The mazes solve is run on.
Example1 ==
    <<<<"#", "#", "#", "#", "#", "#", "#", "#", "#">>,
      <<"#", "b", ".", "A", ".", "@", ".", "a", "#">>,
      <<"#", "#", "#", "#", "#", "#", "#", "#", "#">>>>

Example2 ==
    <<<<"#", "#", "#", "#", "#", "#", "#", "#", "#", "#", "#", "#", "#", "#", "#", "#", "#", "#", "#", "#", "#", "#", "#", "#">>,
      <<"#", "f", ".", "D", ".", "E", ".", "e", ".", "C", ".", "b", ".", "A", ".", "@", ".", "a", ".", "B", ".", "c", ".", "#">>,
      <<"#", "#", "#", "#", "#", "#", "#", "#", "#", "#", "#", "#", "#", "#", "#", "#", "#", "#", "#", "#", "#", "#", ".", "#">>,
      <<"#", "d", ".", ".", ".", ".", ".", ".", ".", ".", ".", ".", ".", ".", ".", ".", ".", ".", ".", ".", ".", ".", ".", "#">>,
      <<"#", "#", "#", "#", "#", "#", "#", "#", "#", "#", "#", "#", "#", "#", "#", "#", "#", "#", "#", "#", "#", "#", "#", "#">>>>

\* Two ways from the entrance to key b: 3 steps through door A, 7 around it;
\* key a lies behind key b.
TwoWays ==
    <<<<"#", "#", "#", "#", "#", "#", "#">>,
      <<"#", "a", "b", ".", "A", "@", "#">>,
      <<"#", "#", "#", ".", "#", ".", "#">>,
      <<"#", "#", "#", ".", ".", ".", "#">>,
      <<"#", "#", "#", "#", "#", "#", "#">>>>

NoKeys ==
    <<<<"#", "#", "#", "#">>,
      <<"#", "@", ".", "#">>,
      <<"#", "#", "#", "#">>>>

\* A door that has no key.
NoKeyForDoor ==
    <<<<"#", "#", "#", "#", "#">>,
      <<"#", "@", "B", "a", "#">>,
      <<"#", "#", "#", "#", "#">>>>

\* A maze without an entrance.
NoEntrance ==
    <<<<"#", "#", "#", "#">>,
      <<"#", "a", ".", "#">>,
      <<"#", "#", "#", "#">>>>

\* A corridor holding the five cells of p in a row.
Corridor(p) ==
    <<[c \in 1 .. Len(p) + 2 |-> WALL],
      <<WALL>> \o p \o <<WALL>>,
      [c \in 1 .. Len(p) + 2 |-> WALL]>>

CorridorCells == {ENTRANCE, "a", "b", "A", "B"}

Corridors ==
    { Corridor(p) : p \in { q \in [1 .. 5 -> CorridorCells] :
                             \A i, j \in 1 .. 5 : i # j => q[i] # q[j] } }

Mazes ==
    {Example1, Example2, TwoWays, NoKeys, NoKeyForDoor, NoEntrance} \cup Corridors

\* solve is entered with a maze; nothing is computed yet.
InitMaze ==
    /\ MachineIdle
    /\ decoder = Idle
    /\ probe = Idle
    /\ \E maze \in Mazes :
         solver = [at |-> "solve", maze |-> maze, char_keys |-> <<>>,
                   number_of_keys |-> 0, node_id |-> <<>>, total_nodes |-> 0,
                   adjacency_matrix |-> <<>>, nodes_positions |-> <<>>,
                   dependencies |-> <<>>, node |-> 0,
                   bfs_queue |-> <<>>, bfs_visited |-> {}, k |-> 0, i |-> 0, dp |-> <<>>, dep |-> <<>>,
                   queue |-> <<>>, visited |-> <<>>, min_distance |-> 0,
                   result |-> 0]

\* solve up to the bfs loop: the keys, the node ids and positions, and the
\* matrices with the zero diagonal of the keys.
Scan ==
    /\ solver.at = "solve"
    /\ \E keys \in {sorted_keys(solver.maze)} :
         LET char_keys == Append(keys, ENTRANCE)
             node_id == node_ids(char_keys)
             total_nodes == Len(char_keys)
         IN solver' = [solver EXCEPT
              !.at = "bfs",
              !.char_keys = char_keys,
              !.number_of_keys = Len(keys),
              !.node_id = node_id,
              !.total_nodes = total_nodes,
              !.adjacency_matrix =
                  [i \in 0 .. total_nodes - 1 |->
                     [j \in 0 .. total_nodes - 1 |->
                        IF i = j /\ i < Len(keys) THEN 0 ELSE INFINITY]],
              !.nodes_positions = positions(solver.maze, char_keys, node_id),
              !.dependencies =
                  [i \in 0 .. total_nodes - 1 |->
                     [j \in 0 .. total_nodes - 1 |-> {}]],
              !.node = 0]
    /\ UNCHANGED <<machine, own, decoder, probe>>

\* `for (node, position) in nodes_positions`, a node that is in the maze:
\* bfs is entered with the node's position in its queue.
BfsCall ==
    /\ solver.at = "bfs"
    /\ solver.node < solver.total_nodes
    /\ solver.nodes_positions[solver.node] # NOT_HERE
    /\ LET position == solver.nodes_positions[solver.node]
       IN solver' = [solver EXCEPT
            !.at = "in bfs",
            !.bfs_queue = <<<<0, {}, position[1], position[2]>>>>,
            !.bfs_visited = {position}]
    /\ UNCHANGED <<machine, own, decoder, probe>>

\* A node that is not in the maze is passed over.
BfsSkip ==
    /\ solver.at = "bfs"
    /\ solver.node < solver.total_nodes
    /\ solver.nodes_positions[solver.node] = NOT_HERE
    /\ solver' = [solver EXCEPT !.node = @ + 1]
    /\ UNCHANGED <<machine, own, decoder, probe>>

\* bfs, one turn of `while queue.len() > 0`: pop_front and the neighbours.
\* A panic ends the program.
BfsStep ==
    /\ solver.at = "in bfs"
    /\ solver.bfs_queue # <<>>
    /\ LET front == Head(solver.bfs_queue)
       IN \E st \in {bfs_neighbors(
                       [queue |-> Tail(solver.bfs_queue),
                        visited |-> solver.bfs_visited,
                        adjacency_matrix |-> solver.adjacency_matrix,
                        dependencies |-> solver.dependencies,
                        panicked |-> FALSE],
                       solver.node, front[1], front[2],
                       get_neighbors(front[3], front[4], solver.maze),
                       solver.maze, solver.node_id)} :
            solver' = [solver EXCEPT
               !.at = IF st.panicked THEN "panic" ELSE "in bfs",
               !.bfs_queue = st.queue,
               !.bfs_visited = st.visited,
               !.adjacency_matrix = st.adjacency_matrix,
               !.dependencies = st.dependencies]
    /\ UNCHANGED <<machine, own, decoder, probe>>

\* bfs returns when its queue is empty; the next node follows.
BfsReturn ==
    /\ solver.at = "in bfs"
    /\ solver.bfs_queue = <<>>
    /\ solver' = [solver EXCEPT !.at = "bfs", !.node = @ + 1]
    /\ UNCHANGED <<machine, own, decoder, probe>>

\* `let mut min_distance: usize = 0`
initial_min_distance == 0

\* The matrices are cloned for Floyd-Warshall.
Clone ==
    /\ solver.at = "bfs"
    /\ solver.node = solver.total_nodes
    /\ solver' = [solver EXCEPT !.at = "floyd-warshall",
                                !.dp = solver.adjacency_matrix,
                                !.dep = solver.dependencies,
                                !.k = 0,
                                !.i = 0]
    /\ UNCHANGED <<machine, own, decoder, probe>>

\* One turn of `for i in 0..number_of_keys`, for the k and i reached.
FloydWarshall ==
    /\ solver.at = "floyd-warshall"
    /\ solver.k < solver.number_of_keys
    /\ \E m \in {floyd_warshall([dp |-> solver.dp, dep |-> solver.dep],
                                solver.number_of_keys, solver.k, solver.i, 0)} :
         solver' = [solver EXCEPT
            !.dp = m.dp,
            !.dep = m.dep,
            !.i = IF @ + 1 = solver.number_of_keys THEN 0 ELSE @ + 1,
            !.k = IF solver.i + 1 = solver.number_of_keys THEN @ + 1 ELSE @]
    /\ UNCHANGED <<machine, own, decoder, probe>>

\* The search starts at the entrance with no key.
SearchInit ==
    /\ solver.at = "floyd-warshall"
    /\ solver.k = solver.number_of_keys
    /\ solver' = [solver EXCEPT
         !.at = "search",
         !.queue = push(<<>>, <<{}, solver.node_id[ENTRANCE]>>, 0),
         !.visited = push(<<>>, <<solver.node_id[ENTRANCE], {}>>, 0),
         !.min_distance = initial_min_distance]
    /\ UNCHANGED <<machine, own, decoder, probe>>

\* goal: every key bit set
goal(number_of_keys) == 0 .. number_of_keys - 1

\* The items pop_min may return: those of least priority.
minimal(queue) ==
    { item \in DOMAIN queue : \A other \in DOMAIN queue : queue[item] <= queue[other] }

\* without(queue, item): the queue after the item is popped
without(queue, item) == [q \in DOMAIN queue \ {item} |-> queue[q]]

\* pop_min returns a state with every key: min_distance is set, the loop ends.
PopGoal ==
    /\ solver.at = "search"
    /\ \E item \in minimal(solver.queue) :
         /\ item[1] = goal(solver.number_of_keys)
         /\ solver' = [solver EXCEPT
              !.at = "break",
              !.queue = without(@, item),
              !.min_distance = solver.queue[item]]
    /\ UNCHANGED <<machine, own, decoder, probe>>

\* pop_min returns another state: its key nodes are relaxed.
PopRelax ==
    /\ solver.at = "search"
    /\ \E item \in minimal(solver.queue) :
         /\ item[1] # goal(solver.number_of_keys)
         /\ \E st \in {relax([queue |-> without(solver.queue, item),
                              visited |-> solver.visited],
                             item[1], item[2], solver.queue[item], 0,
                             solver.number_of_keys, solver.dp, solver.dep)} :
              solver' = [solver EXCEPT !.queue = st.queue,
                                       !.visited = st.visited]
    /\ UNCHANGED <<machine, own, decoder, probe>>

\* `while queue.len() > 0` fails: the loop ends with min_distance untouched.
QueueEmpty ==
    /\ solver.at = "search"
    /\ DOMAIN solver.queue = {}
    /\ solver' = [solver EXCEPT !.at = "empty"]
    /\ UNCHANGED <<machine, own, decoder, probe>>

\* `min_distance as i32`; min_distance is a sum of fewer than 27 matrix
\* entries below INFINITY, which the cast leaves as it is.
ReturnMinDistance ==
    /\ solver.at \in {"break", "empty"}
    /\ solver' = [solver EXCEPT !.at = "done", !.result = solver.min_distance]
    /\ UNCHANGED <<machine, own, decoder, probe>>

NextMaze ==
    \/ Scan
    \/ BfsCall
    \/ BfsSkip
    \/ BfsStep
    \/ BfsReturn
    \/ Clone
    \/ FloydWarshall
    \/ SearchInit
    \/ PopGoal
    \/ PopRelax
    \/ QueueEmpty
    \/ ReturnMinDistance

SpecMaze == InitMaze /\ [][NextMaze]_vars

----------------------------------------------------------------------------
(* What the specification says of an instruction, in its own words: the     *)
(* word at the pointer, its digits, and the addressing-mode table.          *)

\* A read of address a: the value stored there, 0 if unset.
Mem(prog, a) == IF a \in DOMAIN prog THEN prog[a] ELSE 0

Word == Mem(program, pointer)

\* The decimal digit of w at place k (100, 1000, 10000), for w >= 0.
Digit(w, k) == (w \div k) % 10

\* The mode digit of parameter n (1, 2, 3) of the word at the pointer.
Mode(n) == Digit(Word, IF n = 1 THEN 100 ELSE IF n = 2 THEN 1000 ELSE 10000)

\* The word at the pointer is an instruction with opcode op.
IsInstr(op) ==
    /\ pc = "run"
    /\ pointer \in DOMAIN program
    /\ Word >= 0
    /\ Word % 100 = op
    /\ \A n \in 1 .. 3 : Mode(n) \in {0, 1, 2}

Raw(offset) == Mem(program, pointer + offset)

\* The mode table, read side.
ReadOperand(n) ==
    IF Mode(n) = 0 THEN Mem(program, Raw(n))
    ELSE IF Mode(n) = 1 THEN Raw(n)
    ELSE Mem(program, relative_base + Raw(n))

\* The mode table, write side (modes 0 and 2).
WriteAddress(n) ==
    IF Mode(n) = 0 THEN Raw(n) ELSE relative_base + Raw(n)

\* No address the instruction computes for its first n parameters leaves i64.
AddressesFit(n) ==
    /\ Fits(pointer + 4)
    /\ \A k \in 1 .. n : Mode(k) = 2 => Fits(relative_base + Raw(k))

----------------------------------------------------------------------------
(* C1 *)

\* C1 (step): in the day25 engine, when the word at the pointer is an input
\* instruction and the queue is empty, the step of run returns to the host
\* with exactly the output produced so far in this call, and leaves pointer,
\* memory, relative base and the (false) halted flag as they were.
C1SuspendStep ==
    (engine = "day25" /\ IsInstr(CPY) /\ input = <<>>)
        => /\ pc' = "host"
           /\ returned' = output
           /\ pointer' = pointer
           /\ halted' = FALSE
           /\ program' = program
           /\ relative_base' = relative_base
           /\ input' = <<>>

\* C1 (first call): a first run with an empty queue on a program that begins
\* with an input instruction returns empty output, pointer 0, halted = false.
C1FirstCall ==
    (/\ engine = "day25"
     /\ pc = "host"
     /\ since = "first_run"
     /\ run_input = <<>>
     /\ image[0] >= 0
     /\ image[0] % 100 = CPY
     /\ \A k \in {100, 1000, 10000} : Digit(image[0], k) \in {0, 1, 2})
        => returned = <<>> /\ pointer = 0 /\ ~halted

\* C1: an input instruction on an empty queue suspends the day25 run: it
\* returns the output so far, the pointer stays at the instruction, halted
\* stays false, memory and relative base are untouched.
C1_SuspendOnStarvation == []C1FirstCall /\ [][C1SuspendStep]_vars

\* C1 witness: a run that had produced output suspended at a later input
\* instruction.
C1_Witness ==
    /\ engine = "day25"
    /\ pc = "host"
    /\ last_return = "suspend"
    /\ returned # <<>>
    /\ pointer > 0
    /\ ~halted

----------------------------------------------------------------------------
(* C2 *)

\* C2 (call): the run call after a suspension starts where the machine stopped.
C2CallStep ==
    (engine = "day25" /\ pc = "host" /\ last_return = "suspend" /\ pc' = "run")
        => /\ pointer' = pointer
           /\ program' = program
           /\ relative_base' = relative_base
           /\ input' = input

\* C2 (resume): the first step of that call, with a non-empty queue, is the
\* same input instruction: it removes the front value, stores it at the
\* resolved target, adds 2 to the pointer and the run goes on.
C2ResumeStep ==
    (/\ engine = "day25"
     /\ pc = "run"
     /\ steps = 0
     /\ last_return = "suspend"
     /\ input # <<>>)
        => /\ IsInstr(CPY)
           /\ (Mode(1) # 1 /\ AddressesFit(1))
                => /\ input' = Tail(input)
                   /\ Mem(program', WriteAddress(1)) = Head(input)
                   /\ pointer' = pointer + 2
                   /\ pc' = "run"

\* C2: after a suspension, the next run with a non-empty queue re-executes
\* the same input instruction at the same pointer: front value removed and
\* stored at the resolved target, pointer + 2, execution continues.
C2_ResumeReexecutesInput == [][C2CallStep /\ C2ResumeStep]_vars

\* C2 witness: Dialogue, suspended at its first input instruction (pointer 2,
\* relative target 20), resumed with two values queued; the front one was
\* stored.
C2_Witness ==
    /\ engine = "day25"
    /\ image = parse(Dialogue)
    /\ last_return = "suspend"
    /\ pc = "run"
    /\ steps = 1
    /\ pointer = 4
    /\ Len(run_input) = 2
    /\ run_input[1] # run_input[2]
    /\ Mem(program, 20) = run_input[1]
    /\ input = Tail(run_input)

----------------------------------------------------------------------------
(* C3 *)

\* One run call on a machine newly built from the image, with everything the
\* host supplied so far pre-loaded in the queue.
SingleRun == run(new(engine, image, supplied))

\* C3: whenever the single pre-loaded run halts, the day25 machine that was
\* fed the same values in chunks, one run call per chunk, has halted too,
\* the concatenation of the returned outputs equals the single run's output,
\* and memory, pointer, relative base and halted flag are the same.
C3_ChunkedEqualsPreloaded ==
    (/\ engine = "day25"
     /\ pc = "host"
     /\ runs >= 1
     /\ (halted \/ input = <<>>)
     /\ SingleRun.status = "halted")
        => /\ halted
           /\ SingleRun.halted
           /\ outs = SingleRun.output
           /\ program = SingleRun.program
           /\ pointer = SingleRun.pointer
           /\ relative_base = SingleRun.relative_base

\* C3 witness: Dialogue halted in its third run call, after a first call on
\* an empty queue and one value per later call.
C3_Witness ==
    /\ engine = "day25"
    /\ image = parse(Dialogue)
    /\ pc = "host"
    /\ halted
    /\ runs = 3
    /\ supplied = <<3, -4>>
    /\ outs = <<3, -1>>
    /\ returned = <<-1>>

----------------------------------------------------------------------------
(* C4 *)

\* C4: the decoded opcode is the word modulo 100 and the three modes are its
\* hundreds, thousands and ten-thousands digits; a digit the word does not
\* have is mode 0; every word whose digits are valid decodes; 1002 decodes
\* to opcode 2 with modes 0, 1, 0.
C4_DecodeDigits ==
    LET w == operation.instruction
        digits_valid == /\ w % 100 \in {1, 2, 3, 4, 5, 6, 7, 8, 9, 99}
                        /\ \A k \in {100, 1000, 10000} : Digit(w, k) \in {0, 1, 2}
    IN (operation # NoOperation /\ w >= 0)
        => /\ operation.ok = digits_valid
           /\ operation.operation = w % 100
           /\ operation.first_parameter_mode = Digit(w, 100)
           /\ operation.second_parameter_mode = Digit(w, 1000)
           /\ operation.third_parameter_mode = Digit(w, 10000)
           /\ (w < 10000 => operation.third_parameter_mode = 0)
           /\ (w < 1000 => operation.second_parameter_mode = 0)
           /\ (w < 100 => operation.first_parameter_mode = 0)
           /\ (w = 1002 =>
                 /\ operation.ok
                 /\ operation.operation = 2
                 /\ operation.first_parameter_mode = 0
                 /\ operation.second_parameter_mode = 1
                 /\ operation.third_parameter_mode = 0)

\* C4 witness: the word 1002 was decoded.
C4_Witness ==
    /\ operation.ok
    /\ operation.instruction = 1002
    /\ operation.second_parameter_mode = ImmediateMode

----------------------------------------------------------------------------
(* C5 *)

\* C5: every handler resolves its operands by the mode table: reads are
\* memory[memory[p+n]], memory[p+n] or memory[rb + memory[p+n]], write
\* targets are memory[p+n] or rb + memory[p+n], unset addresses read as 0.
C5OperandStep ==
    /\ (IsInstr(OUT) /\ AddressesFit(1))
         => pc' = "run" /\ output' = Append(output, ReadOperand(1))
    /\ (IsInstr(ARB) /\ AddressesFit(1) /\ Fits(relative_base + ReadOperand(1)))
         => pc' = "run" /\ relative_base' = relative_base + ReadOperand(1)
    /\ (IsInstr(JIT) /\ AddressesFit(2) /\ ReadOperand(1) # 0)
         => pc' = "run" /\ pointer' = ReadOperand(2)
    /\ (IsInstr(JIF) /\ AddressesFit(2) /\ ReadOperand(1) = 0)
         => pc' = "run" /\ pointer' = ReadOperand(2)
    /\ (IsInstr(CPY) /\ input # <<>> /\ Mode(1) # 1 /\ AddressesFit(1))
         => pc' = "run" /\ Mem(program', WriteAddress(1)) = Head(input)
    /\ (IsInstr(SUM) /\ Mode(3) # 1 /\ AddressesFit(3)
            /\ Fits(ReadOperand(1) + ReadOperand(2)))
         => /\ pc' = "run"
            /\ Mem(program', WriteAddress(3)) = ReadOperand(1) + ReadOperand(2)

C5_ModeTable == [][C5OperandStep]_vars

\* C5 witness: with relative base 6, "out" in relative mode with raw
\* parameter 1 put memory[7] = 5 in the output.
C5_Witness ==
    /\ image = parse(Unary(204, 1))
    /\ pc = "run"
    /\ steps = 2
    /\ relative_base = 6
    /\ operation.operation = OUT
    /\ operation.first_parameter_mode = RelativeMode
    /\ output = <<5>>

----------------------------------------------------------------------------
(* C6 *)

\* The address the instruction at the pointer writes, if it writes one.
WrittenBy ==
    IF (IsInstr(SUM) \/ IsInstr(MUL) \/ IsInstr(LTH) \/ IsInstr(EQL))
          /\ Mode(3) # 1
    THEN {Wrap(WriteAddress(3))}
    ELSE IF IsInstr(CPY) /\ Mode(1) # 1 THEN {Wrap(WriteAddress(1))}
    ELSE {}

\* The host's reset call (day19): the one step that reinstalls the image.
IsResetStep == engine = "day19" /\ pc = "host" /\ pc' = "host" /\ input' = input

\* C6 (frame): no step other than reset changes what any address reads as,
\* except the address the current instruction writes; so a value written
\* stays until that address is written again, in this run and in later ones.
C6FrameStep ==
    ~IsResetStep
        => \A a \in (DOMAIN program) \cup (DOMAIN program') :
              a \notin WrittenBy => Mem(program', a) = Mem(program, a)

\* C6 (zero): an address outside the initial image that no instruction wrote
\* holds 0 if it is in the map at all.
C6UnwrittenZero ==
    \A a \in DOMAIN program :
        (a \notin DOMAIN image /\ a \notin written) => program[a] = 0

\* C6: a written value is read back until the address is written again, in
\* the same run or a later one; never-written addresses read as 0.
C6_WriteReadBack == []C6UnwrittenZero /\ [][C6FrameStep]_vars

\* C6 witness: Dialogue wrote its first input at address 20, beyond the
\* image, in the first run call and read it back in the second.
C6_Witness ==
    /\ engine = "day25"
    /\ image = parse(Dialogue)
    /\ 20 \notin DOMAIN image
    /\ 20 \in written
    /\ runs = 2
    /\ halted
    /\ Len(supplied) = 2
    /\ program[20] = supplied[1]
    /\ returned = <<supplied[1] + supplied[2]>>

----------------------------------------------------------------------------
(* C7 *)

\* The first run call, with the queue of the latest call, on a machine newly
\* constructed from the host's image.
FreshRun == run(new(engine, image, run_input))

\* C7: on the day19 engine, whatever calls came before, the run call that
\* follows a reset returns exactly the output of the first run with the same
\* queue on a freshly constructed machine (and panics exactly when that one
\* does).
C7_ResetThenRunIsFresh ==
    (engine = "day19" /\ since = "reset_run")
        => /\ pc = "host" => (FreshRun.status = "halted"
                              /\ returned = FreshRun.output)
           /\ pc = "abort" => FreshRun.status = "panic"

\* C7 witness: CountDown was run, reset and run again with a queue that
\* makes it loop; the second call returned the three values.
C7_Witness ==
    /\ engine = "day19"
    /\ image = parse(CountDown)
    /\ since = "reset_run"
    /\ pc = "host"
    /\ runs >= 2
    /\ program # image
    /\ run_input = <<3>>
    /\ returned = <<3, 2, 1>>

----------------------------------------------------------------------------
(* C8 *)

\* C8: the first run of the quine program with an empty queue halts and
\* returns the program's own sixteen values, in order.
C8_Quine ==
    (image = parse(Quine) /\ since = "first_run" /\ run_input = <<>>)
        => /\ pc # "abort"
           /\ steps < MaxSteps
           /\ pc = "host" => (halted /\ returned = Quine)

\* C8 witness: the quine has halted and returned its own text.
C8_Witness ==
    /\ image = parse(Quine)
    /\ since = "first_run"
    /\ run_input = <<>>
    /\ pc = "host"
    /\ halted
    /\ Len(returned) = 16
    /\ returned = Quine

----------------------------------------------------------------------------
(* C9 *)

\* C9 (step): add stores op1 + op2 and multiply stores op1 * op2 at the
\* resolved target, the operands being read before the write, exactly,
\* whenever the value fits in i64.
C9ArithmeticStep ==
    /\ (IsInstr(SUM) /\ Mode(3) # 1 /\ AddressesFit(3)
            /\ Fits(ReadOperand(1) + ReadOperand(2)))
         => /\ pc' = "run"
            /\ Mem(program', WriteAddress(3)) = ReadOperand(1) + ReadOperand(2)
    /\ (IsInstr(MUL) /\ Mode(3) # 1 /\ AddressesFit(3)
            /\ Fits(ReadOperand(1) * ReadOperand(2)))
         => /\ pc' = "run"
            /\ Mem(program', WriteAddress(3)) = ReadOperand(1) * ReadOperand(2)

\* C9 (example): 1,0,0,0,99 halts with memory[0] = 2.
C9AddExample ==
    (image = parse(AddExample) /\ since \in {"first_run", "reset_run", "later_run"})
        => /\ pc # "abort"
           /\ pc = "host" => (halted /\ program[0] = 2)

\* C9: add and multiply store the exact sum and product of the resolved
\* operands at the resolved target whenever it fits in signed 64 bits; the
\* program 1,0,0,0,99 halts with memory[0] = 2.
C9_Arithmetic == []C9AddExample /\ [][C9ArithmeticStep]_vars

\* C9 witness: a multiply of two operands read in relative mode stored
\* their product -3 * -3 = 9 at a relative target beyond the image.
C9_Witness ==
    /\ image = parse(Binary(22202, <<1, 1, 30>>))
    /\ pc = "run"
    /\ steps = 2
    /\ operation.operation = MUL
    /\ Mem(program, 38) = 9

----------------------------------------------------------------------------
(* C10 *)

\* C10: less-than writes 1 if op1 < op2 and 0 otherwise, equals writes 1 if
\* op1 = op2 and 0 otherwise, at a position-mode or relative-mode target; the
\* value written is 0 or 1.
C10CompareStep ==
    /\ (IsInstr(LTH) /\ Mode(3) # 1 /\ AddressesFit(3))
         => /\ pc' = "run"
            /\ Mem(program', WriteAddress(3)) =
                  (IF ReadOperand(1) < ReadOperand(2) THEN 1 ELSE 0)
            /\ Mem(program', WriteAddress(3)) \in {0, 1}
    /\ (IsInstr(EQL) /\ Mode(3) # 1 /\ AddressesFit(3))
         => /\ pc' = "run"
            /\ Mem(program', WriteAddress(3)) =
                  (IF ReadOperand(1) = ReadOperand(2) THEN 1 ELSE 0)
            /\ Mem(program', WriteAddress(3)) \in {0, 1}

C10_CompareWritesZeroOrOne == [][C10CompareStep]_vars

\* C10 witness: less-than with operands -3 (position) and 10 (immediate) and
\* a relative-mode target wrote 1 at address 8 + 7 = 15.
C10_Witness ==
    /\ image = parse(Binary(21007, <<9, 10, 7>>))
    /\ pc = "run"
    /\ steps = 2
    /\ operation.operation = LTH
    /\ operation.third_parameter_mode = RelativeMode
    /\ 15 \in written
    /\ Mem(program, 15) = 1

----------------------------------------------------------------------------
(* C11 *)

\* C11: an instruction that completes moves the pointer by its width (4 for
\* add, multiply, less-than, equals; 2 for input, output, adjust-relative-
\* base; 3 for a jump not taken) or, for a taken jump, to op2; jump-if-true
\* jumps exactly when op1 # 0, jump-if-false exactly when op1 = 0.
C11PointerStep ==
    (pc = "run" /\ pc' = "run" /\ Fits(pointer + 4))
        => /\ (IsInstr(SUM) \/ IsInstr(MUL) \/ IsInstr(LTH) \/ IsInstr(EQL))
                => pointer' = pointer + 4
           /\ (IsInstr(CPY) \/ IsInstr(OUT) \/ IsInstr(ARB))
                => pointer' = pointer + 2
           /\ IsInstr(JIT)
                => pointer' = IF ReadOperand(1) # 0 THEN ReadOperand(2)
                              ELSE pointer + 3
           /\ IsInstr(JIF)
                => pointer' = IF ReadOperand(1) = 0 THEN ReadOperand(2)
                              ELSE pointer + 3

C11_PointerAdvance == [][C11PointerStep]_vars

\* C11 witness: jump-if-false with op1 = 0 (immediate) jumped to op2 = 11
\* (immediate) from pointer 2.
C11_Witness ==
    /\ image = parse(Jump(1106, <<0, 11>>))
    /\ pc = "run"
    /\ steps = 2
    /\ operation.operation = JIF
    /\ pointer = 11

----------------------------------------------------------------------------
(* C12 *)

\* C12 (step): only an input instruction removes a value from the queue; it
\* removes the front one, which is the next value the host supplied, and
\* that is the value it writes.
C12QueueStep ==
    pc = "run"
        => IF IsInstr(CPY) /\ input # <<>>
           THEN /\ input' = Tail(input)
                /\ Head(input) = supplied[Len(supplied) - Len(input) + 1]
                /\ pc' = "run" => Mem(program', WriteAddress(1)) = Head(input)
           ELSE input' = input

\* C12 (order): the queue is what remains of the supplied values, in order.
C12QueueIsRest ==
    /\ Len(input) <= Len(supplied)
    /\ input = SubSeq(supplied, Len(supplied) - Len(input) + 1, Len(supplied))

\* C12: the k-th input instruction executed removes the k-th supplied value
\* from the front of the queue and writes it; no other instruction touches
\* the queue.
C12_InputInOrder == []C12QueueIsRest /\ [][C12QueueStep]_vars

\* C12 witness: Dialogue consumed two different values, pre-loaded in one
\* queue, in the order they were supplied.
C12_Witness ==
    /\ image = parse(Dialogue)
    /\ Len(run_input) = 2
    /\ run_input[1] # run_input[2]
    /\ supplied = run_input
    /\ halted
    /\ input = <<>>
    /\ Mem(program, 20) = supplied[1]
    /\ Mem(program, 21) = supplied[2]

----------------------------------------------------------------------------
(* C13 *)

\* C13: the output vector is empty when a run call starts, grows by exactly
\* the operand of each output instruction executed, in order, and is what the
\* call returns, by halt or by suspension.
C13OutputStep ==
    /\ (pc = "host" /\ pc' = "run") => output' = <<>>
    /\ (IsInstr(OUT) /\ pc' = "run")
         => output' = Append(output, ReadOperand(1))
    /\ (pc = "run" /\ ~(IsInstr(OUT) /\ pc' = "run")) => output' = output
    /\ (pc = "run" /\ pc' = "host") => returned' = output

C13_OutputPerInvocation == [][C13OutputStep]_vars

\* C13 witness: Dialogue returned <<3>> by suspension and then <<-1>> by
\* halt: the first call's value is not in the second call's output.
C13_Witness ==
    /\ engine = "day25"
    /\ image = parse(Dialogue)
    /\ pc = "host"
    /\ runs = 2
    /\ halted
    /\ outs = <<3, -1>>
    /\ returned = <<-1>>

----------------------------------------------------------------------------
(* C14 *)

\* A step that starts a run invocation.
IsRunCallStep == pc = "host" /\ pc' = "run"

\* C14 as stated: the relative base changes only when opcode 9 adds op1 to
\* it; in particular no start of a run invocation changes it.
C14_OnlyArbChangesBase ==
    [][relative_base' # relative_base
         => /\ pc = "run"
            /\ IsInstr(ARB)
            /\ relative_base' = Wrap(relative_base + ReadOperand(1))]_vars

C14BaseStep ==
    /\ (IsInstr(ARB) /\ pc' = "run")
         => relative_base' = Wrap(relative_base + ReadOperand(1))
    /\ relative_base' # relative_base
         => \/ IsInstr(ARB) /\ pc' = "run"
            \/ engine = "day19" /\ IsRunCallStep /\ relative_base' = 0
    /\ (engine = "day19" /\ IsRunCallStep) => relative_base' = 0

\* C14, amended: the relative base is zero initially and, within a run
\* invocation, changes only when opcode 9 adds op1 to it; day25 keeps it
\* across suspensions and run calls, day19 starts every run call with
\* relative base zero.
C14_BaseWithinInvocation ==
    [](since = "new" => relative_base = 0) /\ [][C14BaseStep]_vars

\* C14 witness: day19 ran the Quine, which left the relative base at 16, and
\* a second run call, with no reset in between, halted with the relative base
\* at 0: the call started from 0 and executed the halt at address 15 again.
C14_Witness ==
    /\ engine = "day19"
    /\ image = parse(Quine)
    /\ since = "later_run"
    /\ runs = 2
    /\ pc = "host"
    /\ halted
    /\ relative_base = 0

----------------------------------------------------------------------------
(* C15 *)

C15HaltedStep ==
    /\ halted' # halted
         => \/ pc = "run" /\ IsInstr(END) /\ halted'
            \/ IsResetStep /\ ~halted'
    /\ (pc = "run" /\ IsInstr(END)) => (halted' /\ pc' = "host")
    /\ (pc = "run" /\ pc' = "host")
         => /\ halted' <=> IsInstr(END)
            /\ ~IsInstr(END)
                 => engine = "day25" /\ IsInstr(CPY) /\ input = <<>> /\ ~halted'

\* C15: halted is false from construction, run sets it exactly when it
\* executes opcode 99, and a suspension returns with halted still false.
C15_HaltedOnlyByHalt ==
    /\ [](since = "new" => ~halted)
    /\ [](last_return = "suspend" => ~halted)
    /\ [][C15HaltedStep]_vars

\* C15 witness: the first run call of InputFirst suspended at once, with no
\* output, and the machine is not halted.
C15_Witness ==
    /\ engine = "day25"
    /\ image = parse(InputFirst)
    /\ pc = "host"
    /\ runs = 1
    /\ last_return = "suspend"
    /\ returned = <<>>
    /\ ~halted

----------------------------------------------------------------------------
(* C16 *)

C16BlockingStep ==
    (engine = "day19" /\ pc = "run" /\ IsInstr(CPY) /\ input = <<>>)
        => /\ pc' = "abort"
           /\ returned' = returned
           /\ outs' = outs
           /\ last_return' = last_return
           /\ halted' = halted

\* C16: in day19 an input instruction that finds the queue empty aborts the
\* run, which returns neither output nor status, and nothing follows.
C16_EmptyQueueIsFatal ==
    [](engine = "day19" => last_return # "suspend")
        /\ [][C16BlockingStep /\ pc # "abort"]_vars

\* C16 witness: day19 aborted at an input instruction with a valid write
\* mode, the queue being empty from the start of the call.
C16_Witness ==
    /\ engine = "day19"
    /\ pc = "abort"
    /\ operation.ok
    /\ operation.operation = CPY
    /\ operation.first_parameter_mode # ImmediateMode
    /\ run_input = <<>>
    /\ input = <<>>
    /\ last_return = "none"

----------------------------------------------------------------------------
(* C17 *)

\* The run stops where it is and hands nothing back.
AbortsInPlace ==
    /\ pc' = "abort"
    /\ program' = program
    /\ pointer' = pointer
    /\ halted' = halted
    /\ output' = output
    /\ returned' = returned
    /\ outs' = outs
    /\ last_return' = last_return

C17OpcodeStep ==
    (/\ pc = "run"
     /\ pointer \in DOMAIN program
     /\ Word >= 0
     /\ Word % 100 \notin (1 .. 9) \cup {99})
        => AbortsInPlace

\* C17: a word whose two low-order digits are not 1..9 or 99 aborts the run:
\* no instruction is executed after it and run returns nothing.
C17_InvalidOpcodeAborts == [][C17OpcodeStep /\ pc # "abort"]_vars

\* C17 witness: the program <<0>> aborted at its first word.
C17_Witness ==
    /\ image = parse(<<0>>)
    /\ pc = "abort"
    /\ steps = 1
    /\ ~operation.ok
    /\ operation.instruction = 0
    /\ pointer = 0
    /\ last_return = "none"

----------------------------------------------------------------------------
(* C18 *)

C18ModeStep ==
    (/\ pc = "run"
     /\ pointer \in DOMAIN program
     /\ Word >= 0
     /\ \E n \in 1 .. 3 : Mode(n) \notin {0, 1, 2})
        => AbortsInPlace /\ ~halted'

\* C18: a mode digit other than 0, 1, 2 in any of the three positions aborts
\* the run, whether or not the opcode has that operand: 3099 aborts, it does
\* not halt.
C18_InvalidModeAborts == [][C18ModeStep]_vars

\* C18 witness: the program <<3099>> aborted at its first word, not halted.
C18_Witness ==
    /\ image = parse(<<3099>>)
    /\ pc = "abort"
    /\ steps = 1
    /\ operation.instruction = 3099
    /\ operation.operation = END
    /\ operation.second_parameter_mode = 3
    /\ ~halted

----------------------------------------------------------------------------
(* C19 *)

\* The word at the pointer writes through an immediate-mode target, and, for
\* an input instruction, there is a value to write.
ImmediateTarget ==
    \/ /\ IsInstr(SUM) \/ IsInstr(MUL) \/ IsInstr(LTH) \/ IsInstr(EQL)
       /\ Mode(3) = 1
    \/ /\ IsInstr(CPY)
       /\ Mode(1) = 1
       /\ engine = "day25" => input # <<>>

C19TargetStep ==
    ImmediateTarget
        => /\ pc' = "abort"
           /\ \A a \in DOMAIN program \cup DOMAIN program' :
                 Mem(program', a) = Mem(program, a)
           /\ written' = written
           /\ pointer' = pointer
           /\ returned' = returned

----------------------------------------------------------------------------
(* C20 *)

\* The memory and the saved original image of computer i.
Memory(i) == heap[computers[i].program]
Saved(i) == heap[computers[i].original]

\* The places of the host's program and of every computer's two maps.
OwnedPlaces ==
    {HostPlace}
        \cup { computers[i].original : i \in 1 .. Len(computers) }
        \cup { computers[i].program : i \in 1 .. Len(computers) }

\* C20 (ownership): no two of them are one place, and the host's program and
\* every saved original image stay the parsed program.
C20Exclusive ==
    /\ Cardinality(OwnedPlaces) = 1 + 2 * Len(computers)
    /\ heap[HostPlace] = image
    /\ \A i \in 1 .. Len(computers) : Saved(i) = image

\* C20 (step): an operation on one computer leaves the host's program, every
\* saved original image, and the memory, pointer and halted flag of every
\* other computer as they were.
C20OwnStep ==
    /\ heap'[HostPlace] = heap[HostPlace]
    /\ \A i \in 1 .. Len(computers) :
         i <= Len(computers')
           => /\ Saved(i)' = Saved(i)
              /\ (acted'.on # i \/ acted'.op \in {"new", "drop"})
                   => /\ Memory(i)' = Memory(i)
                      /\ computers'[i].pointer = computers[i].pointer
                      /\ computers'[i].halted = computers[i].halted

\* C20: each computer exclusively owns its memory image and its saved
\* original; the host's parsed program is shared with none.
C20_ExclusiveOwnership == []C20Exclusive /\ [][C20OwnStep]_vars

\* C20 witness: of two computers built from CountDown, the first ran to its
\* halt and changed its memory; the second, the saved originals and the
\* host's program are as parsed.
C20_Witness ==
    /\ image = parse(CountDown)
    /\ Len(computers) = 2
    /\ acted.op = "run"
    /\ acted.on = 1
    /\ acted.output = <<3, 2, 1>>
    /\ computers[1].halted
    /\ Memory(1) # image
    /\ Memory(2) = image
    /\ computers[2].pointer = 0
    /\ ~computers[2].halted

----------------------------------------------------------------------------
(* C21 *)

\* The first run of a freshly constructed machine of each engine, on the
\* same program and the same queue.
Day19Run == run(new("day19", image, supplied))
Day25Run == run(new("day25", image, supplied))

----------------------------------------------------------------------------
(* C25 *)

C25RerunStep ==
    /\ (IsRunCallStep /\ halted)
         => /\ halted'
            /\ program' = program
            /\ pointer' = pointer
            /\ input' = input
    /\ (pc = "run" /\ halted)
         => /\ pc' = "host"
            /\ returned' = <<>>
            /\ halted'
            /\ program' = program
            /\ pointer' = pointer
            /\ input' = input

\* C25: a run call on a halted machine that was not reset executes the halt
\* again and nothing else: it returns the empty output and leaves the queue,
\* the memory, the pointer and halted = true as they were.
C25_RunAfterHaltIsNoOp ==
    [](pc = "run" /\ halted => IsInstr(END) /\ output = <<>>)
        /\ [][C25RerunStep]_vars

\* C25 witness: InputFirst halted in its first run call on <<3>>; the host
\* pushed -4 and called run again, which returned nothing and left -4 queued.
C25_Witness ==
    /\ image = parse(InputFirst)
    /\ pc = "host"
    /\ runs = 2
    /\ halted
    /\ last_return = "halt"
    /\ supplied = <<3, -4>>
    /\ input = <<-4>>
    /\ outs = <<3>>
    /\ returned = <<>>
    /\ Mem(program, 0) = 3

----------------------------------------------------------------------------
(* C26 *)

C26ReturnStep ==
    (engine = "day25" /\ pc = "run" /\ pc' = "host" /\ ~halted')
        => input = <<>> /\ input' = <<>>

\* C26: a day25 run call that returns with halted = false returns with the
\* queue empty: every supplied value has been consumed.
C26_SuspendedMeansDrained == [][C26ReturnStep]_vars

\* C26 witness: Dialogue, called with the one value 3 queued, consumed it and
\* suspended at its second input instruction with the queue empty.
C26_Witness ==
    /\ engine = "day25"
    /\ image = parse(Dialogue)
    /\ pc = "host"
    /\ runs = 1
    /\ run_input = <<3>>
    /\ last_return = "suspend"
    /\ pointer = 6
    /\ ~halted
    /\ input = <<>>
    /\ Mem(program, 20) = 3

----------------------------------------------------------------------------
(* C27 *)

C27NegativeStep ==
    (pc = "run" /\ pointer \in DOMAIN program /\ Word < 0)
        => /\ AbortsInPlace
           /\ ~halted'
           /\ operation'.instruction = Word
           /\ ~operation'.ok
           /\ operation'.operation <= 0
           /\ operation'.operation \notin OperationTypes

\* C27: a negative word at the pointer has a remainder by 100 that is zero
\* or negative, so it is no opcode: the run aborts there, it does not halt
\* and executes none of the nine operations.
C27_NegativeWordAborts == [][C27NegativeStep]_vars

\* C27 witness: the program <<-99>> aborted at its first word, not halted.
C27_Witness ==
    /\ image = parse(<<-99>>)
    /\ pc = "abort"
    /\ steps = 1
    /\ operation.instruction = -99
    /\ operation.operation = -99
    /\ ~halted
    /\ last_return = "none"

----------------------------------------------------------------------------
(* C22 *)

\* A valid Unicode code point.
ValidCodePoint(c) ==
    /\ 0 <= c
    /\ c <= CharMax
    /\ c \notin SurrogateMin .. SurrogateMax

C22DecodeStep ==
    LET c == Head(decoder.output)
    IN IF ValidCodePoint(c)
       THEN /\ decoder'.message = Append(decoder.message, c)
            /\ decoder'.errors = decoder.errors
       ELSE /\ decoder'.message = decoder.message
            /\ decoder'.errors = Append(decoder.errors, c)

\* C22 as stated: a value that is a code point adds that character to the
\* message; a value that is none (negative, above 0x10FFFF, a surrogate) is
\* reported and adds no character.
C22_InvalidValuesReported == [][C22DecodeStep]_vars

----------------------------------------------------------------------------
(* C23 *)

\* The first inside row at column x, and the containment test at x.
FirstRow(x) ==
    CHOOSE y \in 0 .. MaxY :
        /\ pulled(probe.region, x, y) = PULLED
        /\ \A below \in 0 .. y - 1 : pulled(probe.region, x, below) # PULLED

Contained(x) == pulled(probe.region, x - Offset, FirstRow(x) + Offset) = PULLED

\* The candidates from the last failing one to the first succeeding one
\* whose containment test succeeds.
Succeeding == { x \in probe.previous_x .. probe.x1 : Contained(x) }

\* C23 as stated: the search ends at the smallest x, from the last failing
\* candidate to the first succeeding one, whose containment test, taken at
\* the first inside row of column x, succeeds.
C23_EndsAtSmallest ==
    probe.at = "done"
        => /\ probe.start_x \in Succeeding
           /\ \A x \in Succeeding : probe.start_x <= x

----------------------------------------------------------------------------
(* The least number of steps that collects every key, by definition: a     *)
(* walk starts at the entrance, moves one cell up, down, left or right,    *)
(* never onto a wall, onto a door only with the door's key in hand, and    *)
(* picks up the key of every key cell it enters.                           *)

THE_KEYS(maze) ==
    { cell(maze, p[1], p[2]) : p \in { q \in { cells_from(maze, 0)[n] :
              n \in 1 .. Len(cells_from(maze, 0)) } :
                  is_lowercase(cell(maze, q[1], q[2])) } }

HasEntrance(maze) ==
    \E n \in 1 .. Len(cells_from(maze, 0)) :
        cell(maze, cells_from(maze, 0)[n][1], cells_from(maze, 0)[n][2]) = ENTRANCE

Start(maze) ==
    LET all == cells_from(maze, 0)
    IN [pos |-> all[CHOOSE n \in 1 .. Len(all) :
                      cell(maze, all[n][1], all[n][2]) = ENTRANCE],
        keys |-> {}]

Moves(maze, s) ==
    { [pos |-> q,
       keys |-> IF is_lowercase(cell(maze, q[1], q[2]))
                THEN s.keys \cup {cell(maze, q[1], q[2])} ELSE s.keys] :
      q \in { r \in {<<s.pos[1] + 1, s.pos[2]>>, <<s.pos[1] - 1, s.pos[2]>>,
                     <<s.pos[1], s.pos[2] + 1>>, <<s.pos[1], s.pos[2] - 1>>} :
                /\ cell(maze, r[1], r[2]) # WALL
                /\ is_uppercase(cell(maze, r[1], r[2]))
                     => to_ascii_lowercase(cell(maze, r[1], r[2])) \in s.keys } }

\* The states within n moves of the states of S.
RECURSIVE Within(_, _, _)
Within(maze, S, n) ==
    IF n = 0 THEN S
    ELSE IF n = 1 THEN S \cup UNION { Moves(maze, s) : s \in S }
    ELSE LET half == Within(maze, S, n \div 2)
         IN IF Within(maze, half, 1) = half THEN half
            ELSE Within(maze, half, n - n \div 2)

\* Some walk of at most n moves from the entrance collects every key.
Collects(maze, n) ==
    \E s \in Within(maze, {Start(maze)}, n) : s.keys = THE_KEYS(maze)

\* The least n in lo .. hi with Collects(maze, n), given that there is one.
RECURSIVE Least(_, _, _)
Least(maze, lo, hi) ==
    IF lo = hi THEN lo
    ELSE IF Collects(maze, (lo + hi) \div 2)
         THEN Least(maze, lo, (lo + hi) \div 2)
         ELSE Least(maze, (lo + hi) \div 2 + 1, hi)

\* The length of the shortest walk that collects every key, -1 if there is
\* none.  A shortest walk repeats no state, so it is shorter than the number
\* of the pairs of a cell and a set of keys.
MinimumSteps(maze) ==
    LET pairs == Len(cells_from(maze, 0)) * 2 ^ Cardinality(THE_KEYS(maze))
    IN IF Collects(maze, pairs)
       THEN Least(maze, 0, Cardinality(Within(maze, {Start(maze)}, pairs)))
       ELSE -1

\* C24: for every maze with an entrance whose keys can all be collected,
\* solve returns the least number of steps of a walk that collects them
\* (8 for the first example, 86 for the second).
C24_ReturnsMinimum ==
    (/\ solver.at = "done"
     /\ HasEntrance(solver.maze)
     /\ MinimumSteps(solver.maze) >= 0)
        => solver.result = MinimumSteps(solver.maze)

\* The two examples whose files are known return what the tests assert.
ExamplesReturn ==
    solver.at = "done" =>
        /\ solver.maze = Example1 => solver.result = 8 /\ MinimumSteps(Example1) = 8
        /\ solver.maze = Example2 => solver.result = 86 /\ MinimumSteps(Example2) = 86

----------------------------------------------------------------------------
\* No walk from the entrance collects every key of the maze.
NoWay(maze) == ~HasEntrance(maze) \/ MinimumSteps(maze) = -1

\* C28: when no sequence of moves collects every key, solve returns 0, the
\* value it also returns for a maze without keys; whenever the search queue
\* runs empty before a state with every key is popped, the result is 0.
C28_NoWayReturnsZero ==
    /\ [](solver.at = "done"
            => /\ NoWay(solver.maze) => solver.result = 0
               /\ THE_KEYS(solver.maze) = {} => solver.result = 0)
    /\ [][solver.at = "empty" => solver'.result = 0]_vars

\* solve has returned 0 for a maze with an entrance and keys that cannot all
\* be collected, after its queue ran empty.
C28_Witness ==
    /\ solver.at = "done"
    /\ HasEntrance(solver.maze)
    /\ THE_KEYS(solver.maze) # {}
    /\ MinimumSteps(solver.maze) = -1
    /\ DOMAIN solver.queue = {}
    /\ solver.min_distance = initial_min_distance
    /\ solver.result = 0

====
